---- MODULE Spec2Model ----
(***************************************************************************)
(* Verification model of the calendar scheduling core:                     *)
(*   app/scheduler/cp_lns.py   CPLNSScheduler (constraint model + decode)  *)
(*   app/scheduler/swo.py      SWOScheduler (squeaky-wheel greedy repair)  *)
(*   app/services/scheduling.py segmentation, remap, service run           *)
(* Instants are whole minutes since 00:00 UTC of day 0.  An optional value *)
(* (Python None or a value) is a sequence of length 0 or 1.                *)
(***************************************************************************)
EXTENDS Integers, Sequences, FiniteSets, TLC

VARIABLES request, result, phase, total_minutes, remaining, chunks, db, last_run, swo, session,
          conc

vars == <<request, result, phase, total_minutes, remaining, chunks, db, last_run, swo, session,
          conc>>

(***************************************************************************)
(* Program constants                                                       *)
(***************************************************************************)
MinutesPerHour == 60
HoursPerDay == 24
MinutesPerDay == MinutesPerHour * HoursPerDay

CPGranularity == 5
SWOGranularity == 15
HorizonSlack == 10

tardiness_weight == 200
stability_weight == 30
start_time_weight == 1
unscheduled_weight == 10000

max_iterations == 6
unscheduled_penalty == 10000
deviation_weight == 50
slack_weight == 5

MAX_BLOCK_MINUTES == 120
MIN_BLOCK_MINUTES == 15

(***************************************************************************)
(* Bounds of the model                                                     *)
(***************************************************************************)
\* how far above its lower bound a FEASIBLE (non-optimal) solution may leave
\* the auxiliary tardiness / deviation variables: in one scheduler call, and
\* in the runs of the service
AuxSlack == 1
ServiceAuxSlack == 0
\* largest total handed to _segment_duration in the segmentation machine
MaxTotal == 400
\* most service runs (snapshots) in one behaviour of the service
MaxRuns == 2
\* most snapshots committed in one behaviour of the statement-wise run
MaxTxRuns == 1
\* most snapshots in one behaviour of the store
MaxStoreRuns == 3
\* most runs begun in one behaviour of the two concurrent handlers
MaxConcRuns == 4

(***************************************************************************)
(* Generic helpers                                                         *)
(***************************************************************************)
Max(a, b) == IF a >= b THEN a ELSE b
Min(a, b) == IF a <= b THEN a ELSE b
Abs(a) == IF a >= 0 THEN a ELSE 0 - a
CeilDiv(a, b) == 0 - ((0 - a) \div b)
At(h, m) == h * MinutesPerHour + m
Range(s) == {s[i] : i \in 1..Len(s)}

RECURSIVE SeqSum(_)
SeqSum(s) == IF s = <<>> THEN 0 ELSE Head(s) + SeqSum(Tail(s))

RECURSIVE SeqMax(_, _)
SeqMax(s, default) ==
  IF s = <<>> THEN default
  ELSE IF Len(s) = 1 THEN s[1]
  ELSE Max(Head(s), SeqMax(Tail(s), default))

RECURSIVE SeqMin(_)
SeqMin(s) == IF Len(s) = 1 THEN s[1] ELSE Min(Head(s), SeqMin(Tail(s)))

\* list.sort(key=...): stable insertion of x into the sorted list s; lt is
\* the strict order of the keys, as a function on pairs of elements
RECURSIVE InsertSorted(_, _, _)
InsertSorted(x, s, lt) ==
  IF s = <<>> THEN <<x>>
  ELSE IF lt[<<x, Head(s)>>] THEN <<x>> \o s
  ELSE <<Head(s)>> \o InsertSorted(x, Tail(s), lt)

RECURSIVE StableSort(_, _)
StableSort(s, lt) ==
  IF s = <<>> THEN <<>>
  ELSE InsertSorted(s[Len(s)], StableSort(SubSeq(s, 1, Len(s) - 1), lt), lt)

(***************************************************************************)
(* Requests and results (dataclasses of cp_lns.py)                         *)
(***************************************************************************)
\* preferred_windows is None unless the service sets it
ScheduleTask(id, dur, es, due, pri, fixed) ==
  [task_id |-> id, duration_minutes |-> dur, earliest_start |-> es, due |-> due,
   priority |-> pri, fixed_start |-> fixed, preferred_windows |-> <<>>]

ScheduleMeeting(id, s, e) == [meeting_id |-> id, start |-> s, end |-> e]

AssignedTask(id, s, e, dev, tard) ==
  [task_id |-> id, start |-> s, end |-> e, deviation_minutes |-> dev,
   tardiness_minutes |-> tard]

\* status: "returned" for a ScheduleResult, "raised" when schedule() raises
ScheduleResult(a, u, obj) ==
  [status |-> "returned", assignments |-> a, unscheduled_tasks |-> u,
   objective_value |-> obj]

Raised == [status |-> "raised", assignments |-> <<>>, unscheduled_tasks |-> <<>>,
           objective_value |-> <<>>]

NoResult == [status |-> "none", assignments |-> <<>>, unscheduled_tasks |-> <<>>,
             objective_value |-> <<>>]

\* previous_assignments is a dict in insertion order: a sequence of
\* [task_id, start, end] with distinct task_id; this is previous.get(task_id)
previous_get(req, id) ==
  LET hits == {k \in 1..Len(req.previous_assignments) :
                 req.previous_assignments[k].task_id = id}
  IN IF hits = {} THEN <<>>
     ELSE << <<req.previous_assignments[CHOOSE k \in hits : TRUE].start,
               req.previous_assignments[CHOOSE k \in hits : TRUE].end>> >>

\* assignments.sort(key=lambda x: x.start)
sort_by_start(a) ==
  StableSort(a, [p \in Range(a) \X Range(a) |-> p[1].start < p[2].start])

(***************************************************************************)
(* _TimeIndexer (identical in cp_lns.py and swo.py); ix is the indexer     *)
(* together with the horizon computed next to it                           *)
(***************************************************************************)
to_slot(ix, t) == (t - ix.base) \div ix.granularity
to_slot_ceiling(ix, t) == CeilDiv(t - ix.base, ix.granularity)
to_datetime(ix, slot) == ix.base + slot * ix.granularity
duration_to_slots(ix, minutes) == Max(1, CeilDiv(minutes, ix.granularity))

\* base selection: earliest task start or meeting start, aligned down so that
\* its minute-of-hour is a multiple of the granularity
base_start(req, g) ==
  LET b == SeqMin([i \in 1..Len(req.tasks) |-> req.tasks[i].earliest_start]
                  \o [i \in 1..Len(req.meetings) |-> req.meetings[i].start])
  IN b - ((b % MinutesPerHour) % g)

with_horizon(req, ix0) ==
  [base |-> ix0.base, granularity |-> ix0.granularity,
   horizon_slots |->
     Max(to_slot_ceiling(ix0,
           Max(SeqMax([i \in 1..Len(req.tasks) |-> req.tasks[i].due], ix0.base),
               SeqMax([i \in 1..Len(req.meetings) |-> req.meetings[i].end],
                      ix0.base)))
           + HorizonSlack,
         HorizonSlack)]

indexer(req, g) == with_horizon(req, [base |-> base_start(req, g), granularity |-> g])

(***************************************************************************)
(* CPLNSScheduler.schedule: the constraint model                           *)
(***************************************************************************)
\* the task is frozen at its previous start: a neighbourhood window is given,
\* the task has a previous start and that start is outside the window
cp_pinned(req, ix, task, prev_slot) ==
  /\ task.fixed_start = <<>>
  /\ req.neighborhood_window # <<>>
  /\ prev_slot # <<>>
  /\ ~(to_slot(ix, req.neighborhood_window[1][1]) <= prev_slot[1]
       /\ prev_slot[1] <= to_slot_ceiling(ix, req.neighborhood_window[1][2]))

cp_task_vars(req, ix, task, duration_slots, due_slot, earliest_slot, prev_slot) ==
  [task_id |-> task.task_id,
   priority |-> task.priority,
   duration_slots |-> duration_slots,
   earliest_slot |-> earliest_slot,
   latest_start_slot |->
     Max(earliest_slot, Min(due_slot - duration_slots,
                            ix.horizon_slots - duration_slots)),
   due_slot |-> due_slot,
   horizon |-> ix.horizon_slots,
   fixed |-> task.fixed_start # <<>>,
   fixed_slot |-> IF task.fixed_start # <<>> THEN to_slot(ix, task.fixed_start[1]) ELSE 0,
   pinned |-> cp_pinned(req, ix, task, prev_slot),
   previous_start_slot |->
     IF task.fixed_start # <<>> THEN <<to_slot(ix, task.fixed_start[1])>> ELSE prev_slot,
   must_be_present |->
     \/ task.fixed_start # <<>>
     \/ cp_pinned(req, ix, task, prev_slot)
     \/ previous_get(req, task.task_id) = <<>>]

\* the variables' domains and the per-task constraints of request.tasks[i]
cp_task(req, ix, i) ==
  cp_task_vars(req, ix, req.tasks[i],
               duration_to_slots(ix, req.tasks[i].duration_minutes),
               to_slot_ceiling(ix, req.tasks[i].due),
               Max(0, to_slot(ix, req.tasks[i].earliest_start)),
               \* previous_start_slot before fixed_start is looked at
               IF previous_get(req, req.tasks[i].task_id) # <<>>
               THEN <<to_slot(ix, previous_get(req, req.tasks[i].task_id)[1][1])>>
               ELSE <<>>)

\* the constraints on start that hold whether or not the task is present
cp_start_ok(v, s) ==
  /\ v.earliest_slot <= s /\ s <= v.latest_start_slot
  /\ v.fixed => s = v.fixed_slot
  /\ v.pinned => s = v.previous_start_slot[1]
  /\ v.previous_start_slot # <<>> => Abs(s - v.previous_start_slot[1]) <= v.horizon

\* the constraints enforced when the interval is present
cp_present_ok(v, s) ==
  /\ cp_start_ok(v, s)
  /\ s >= v.earliest_slot
  /\ s + v.duration_slots <= v.horizon
  /\ s + v.duration_slots <= v.due_slot

\* least value the deviation variable may take for start s
cp_deviation_lb(v, s) ==
  IF v.previous_start_slot # <<>> THEN Abs(s - v.previous_start_slot[1]) ELSE 0

\* least value the tardiness variable may take
cp_tardiness_lb(v, present, s) ==
  IF present THEN Max(0, s + v.duration_slots - v.due_slot) ELSE 0

\* the meeting's interval of the NoOverlap constraint, as <<start, end>> slots
cp_meeting_interval(ix, m) ==
  <<to_slot(ix, m.start),
    to_slot(ix, m.start) + duration_to_slots(ix, Max(1, m.end - m.start))>>

\* add_block_interval with the emptiness test reversed
add_block_interval_reversed(ix, start_dt, end_dt) ==
  IF Min(ix.horizon_slots, to_slot_ceiling(ix, end_dt)) >= Max(0, to_slot(ix, start_dt))
  THEN <<>>
  ELSE << <<Max(0, to_slot(ix, start_dt)),
            Min(ix.horizon_slots, to_slot_ceiling(ix, end_dt))>> >>

\* add_block_interval: the clipped slot interval, or nothing when it is empty
add_block_interval(ix, start_dt, end_dt) ==
  IF Min(ix.horizon_slots, to_slot_ceiling(ix, end_dt)) <= Max(0, to_slot(ix, start_dt))
  THEN <<>>
  ELSE << <<Max(0, to_slot(ix, start_dt)),
            Min(ix.horizon_slots, to_slot_ceiling(ix, end_dt))>> >>

\* the non-working blocks of the days from current_day up to the horizon
RECURSIVE cp_blocks_from(_, _, _)
cp_blocks_from(req, ix, current_day) ==
  IF current_day < to_datetime(ix, ix.horizon_slots)
  THEN add_block_interval(ix, current_day,
                          current_day + req.working_day_start_hour * MinutesPerHour)
       \o add_block_interval(ix, current_day + req.working_day_end_hour * MinutesPerHour,
                             current_day + MinutesPerDay)
       \o cp_blocks_from(req, ix, current_day + MinutesPerDay)
  ELSE <<>>

cp_has_blocks(req) ==
  req.working_day_start_hour > 0 \/ req.working_day_end_hour < HoursPerDay

\* datetime.replace(hour=24) raises ValueError: hour must be in 0..23
cp_raises(req) ==
  req.tasks # <<>> /\ cp_has_blocks(req) /\ req.working_day_end_hour > HoursPerDay - 1

cp_fixed_intervals(req, ix) ==
  [j \in 1..Len(req.meetings) |-> cp_meeting_interval(ix, req.meetings[j])]
  \o (IF cp_has_blocks(req)
      THEN cp_blocks_from(req, ix, ix.base - (ix.base % MinutesPerDay)) ELSE <<>>)

overlaps(x, y) == x[1] < y[2] /\ y[1] < x[2]

\* the model is satisfiable at all only if the fixed intervals (meetings and
\* non-working blocks) are pairwise disjoint and every start and end variable
\* has a value: end ranges over [earliest_slot + duration_slots, horizon]
cp_model_consistent(vs, fx) ==
  /\ \A i, j \in 1..Len(fx) : i < j => ~overlaps(fx[i], fx[j])
  /\ \A i \in 1..Len(vs) :
       /\ vs[i].earliest_slot + vs[i].duration_slots <= vs[i].horizon
       /\ \E s \in vs[i].earliest_slot..vs[i].latest_start_slot : cp_start_ok(vs[i], s)

\* what an absent task adds to the objective besides unscheduled_weight
cp_absent_cost(v, s) ==
  stability_weight * cp_deviation_lb(v, s) + start_time_weight * v.priority * s

cp_absent_start(v) ==
  CHOOSE s \in v.earliest_slot..v.latest_start_slot :
    /\ cp_start_ok(v, s)
    /\ \A r \in v.earliest_slot..v.latest_start_slot :
         cp_start_ok(v, r) =>
           \/ cp_absent_cost(v, s) < cp_absent_cost(v, r)
           \/ (cp_absent_cost(v, s) = cp_absent_cost(v, r) /\ s <= r)

\* cp_free with the task intervals left out of the NoOverlap constraint
cp_free_fixed_only(vs, fx, c, k, s) ==
  \A j \in 1..Len(fx) : ~overlaps(<<s, s + vs[k].duration_slots>>, fx[j])

\* the interval [s, s + duration) of task k touches no fixed interval and no
\* present interval of the tasks before it
cp_free(vs, fx, c, k, s) ==
  /\ \A j \in 1..Len(fx) : ~overlaps(<<s, s + vs[k].duration_slots>>, fx[j])
  /\ \A i \in 1..Len(c) :
       c[i].present =>
         ~overlaps(<<s, s + vs[k].duration_slots>>,
                   <<c[i].start, c[i].start + vs[i].duration_slots>>)

\* the ways to extend c by task k when no presence literal is forced
cp_extend_all_optional(vs, fx, c, k) ==
  {Append(c, [present |-> TRUE, start |-> s]) :
     s \in {s \in vs[k].earliest_slot..vs[k].latest_start_slot :
              cp_present_ok(vs[k], s) /\ cp_free(vs, fx, c, k, s)}}
  \cup {Append(c, [present |-> FALSE, start |-> cp_absent_start(vs[k])])}

\* the ways to extend the partial assignment c by task k
cp_extend(vs, fx, c, k) ==
  {Append(c, [present |-> TRUE, start |-> s]) :
     s \in {s \in vs[k].earliest_slot..vs[k].latest_start_slot :
              cp_present_ok(vs[k], s) /\ cp_free(vs, fx, c, k, s)}}
  \cup (IF vs[k].must_be_present THEN {}
        ELSE {Append(c, [present |-> FALSE, start |-> cp_absent_start(vs[k])])})

\* the assignments of (presence, start) to tasks 1..k that satisfy the model:
\* sequences of [present, start]
RECURSIVE cp_cores_upto(_, _, _)
cp_cores_upto(vs, fx, k) ==
  IF k = 0 THEN {<<>>}
  ELSE UNION {cp_extend(vs, fx, c, k) : c \in cp_cores_upto(vs, fx, k - 1)}

cp_cores(vs, fx) ==
  IF cp_model_consistent(vs, fx) THEN cp_cores_upto(vs, fx, Len(vs)) ELSE {}

\* the objective with tardiness and deviation at their least values
cp_objective(vs, core) ==
  SeqSum([i \in 1..Len(vs) |->
    unscheduled_weight * (IF core[i].present THEN 0 ELSE 1)
    + tardiness_weight * vs[i].priority
        * cp_tardiness_lb(vs[i], core[i].present, core[i].start)
    + stability_weight * cp_deviation_lb(vs[i], core[i].start)
    + start_time_weight * vs[i].priority * core[i].start])

cp_optimal_cores(vs, cores) ==
  {c \in cores : \A d \in cores : cp_objective(vs, c) <= cp_objective(vs, d)}

\* the values the solver may report for (deviation, tardiness) of task k: the
\* least ones under OPTIMAL (all weights are positive, slack = 0), any
\* admissible ones up to slack above them under FEASIBLE
cp_aux_values(v, c, slack) ==
  {[deviation |-> d, tardiness |-> t] :
     d \in IF v.previous_start_slot = <<>> \/ ~c.present
           THEN {cp_deviation_lb(v, c.start)}
           ELSE cp_deviation_lb(v, c.start)
                  ..Min(v.horizon, cp_deviation_lb(v, c.start) + slack),
     t \in IF ~c.present
           THEN {cp_tardiness_lb(v, c.present, c.start)}
           ELSE cp_tardiness_lb(v, c.present, c.start)
                  ..Min(v.horizon, cp_tardiness_lb(v, c.present, c.start) + slack)}

RECURSIVE cp_aux_upto(_, _, _, _)
cp_aux_upto(vs, core, slack, k) ==
  IF k = 0 THEN {<<>>}
  ELSE {Append(a, x) : a \in cp_aux_upto(vs, core, slack, k - 1),
                       x \in cp_aux_values(vs[k], core[k], slack)}

\* the decoding loop over request.tasks from task i on: the assignments
RECURSIVE cp_assigned_from(_, _, _, _, _)
cp_assigned_from(ix, vs, core, aux, i) ==
  IF i > Len(vs) THEN <<>>
  ELSE (IF core[i].present
        THEN <<AssignedTask(vs[i].task_id,
                            to_datetime(ix, core[i].start),
                            to_datetime(ix, core[i].start + vs[i].duration_slots),
                            aux[i].deviation * ix.granularity,
                            aux[i].tardiness * ix.granularity)>>
        ELSE <<>>) \o cp_assigned_from(ix, vs, core, aux, i + 1)

RECURSIVE cp_unscheduled_from(_, _, _)
cp_unscheduled_from(vs, core, i) ==
  IF i > Len(vs) THEN <<>>
  ELSE (IF core[i].present THEN <<>> ELSE <<vs[i].task_id>>)
       \o cp_unscheduled_from(vs, core, i + 1)

cp_decode(ix, vs, core, aux, optimal) ==
  ScheduleResult(sort_by_start(cp_assigned_from(ix, vs, core, aux, 1)),
                 cp_unscheduled_from(vs, core, 1),
                 IF optimal THEN <<cp_objective(vs, core)>> ELSE <<>>)

cp_all_unscheduled_zero_objective(req) ==
  ScheduleResult(<<>>, [i \in 1..Len(req.tasks) |-> req.tasks[i].task_id], <<0>>)

cp_all_unscheduled(req) ==
  ScheduleResult(<<>>, [i \in 1..Len(req.tasks) |-> req.tasks[i].task_id], <<>>)

cp_empty_result_no_objective == ScheduleResult(<<>>, <<>>, <<>>)
cp_empty_result == ScheduleResult(<<>>, <<>>, <<0>>)

\* the results for a solution status, given the admissible cores
cp_decode_all(ix, vs, cores, optimal, slack) ==
  UNION {{cp_decode(ix, vs, c, a, optimal) : a \in cp_aux_upto(vs, c, slack, Len(vs))} :
           c \in IF optimal THEN cp_optimal_cores(vs, cores) ELSE cores}

cp_solve(req, ix, cores, status) ==
  IF status = "UNKNOWN" \/ cores = {} THEN {cp_all_unscheduled(req)}
  ELSE cp_decode_all(ix, [i \in 1..Len(req.tasks) |-> cp_task(req, ix, i)],
                     cores, status = "OPTIMAL",
                     IF status = "OPTIMAL" THEN 0 ELSE req.solver_slack)

cp_build(req, ix, status) ==
  cp_solve(req, ix,
           cp_cores([i \in 1..Len(req.tasks) |-> cp_task(req, ix, i)],
                    cp_fixed_intervals(req, ix)),
           status)

\* every result CPLNSScheduler.schedule may return for the solver status
\* "OPTIMAL", "FEASIBLE" or "UNKNOWN" (INFEASIBLE, MODEL_INVALID and UNKNOWN
\* are handled alike by the code: status not in (OPTIMAL, FEASIBLE))
cp_schedule(req, status) ==
  IF req.tasks = <<>> THEN {cp_empty_result}
  ELSE IF cp_raises(req) THEN {Raised}
  ELSE cp_build(req, indexer(req, CPGranularity), status)

\* the status solver.Solve returns when the search ends as `status` says:
\* a model without solution is INFEASIBLE whenever the search completes, and
\* the solver is not called for an empty request or after the ValueError
cp_status(req, status) ==
  IF req.tasks = <<>> \/ cp_raises(req) THEN "none"
  ELSE IF status = "UNKNOWN" THEN status
  ELSE IF cp_cores([i \in 1..Len(req.tasks) |->
                      cp_task(req, indexer(req, CPGranularity), i)],
                   cp_fixed_intervals(req, indexer(req, CPGranularity))) # {}
       THEN status
  ELSE "INFEASIBLE"

(***************************************************************************)
(* SWOScheduler                                                            *)
(***************************************************************************)
\* _SegmentInfo of a task
swo_segment_info(ix, task, duration_slots, earliest_slot, due_slot, previous_assignment) ==
  [task |-> task,
   duration_slots |-> duration_slots,
   earliest_slot |-> earliest_slot,
   latest_start_slot |->
     Max(earliest_slot, Min(due_slot - duration_slots,
                            ix.horizon_slots - duration_slots)),
   due_slot |-> due_slot,
   previous_start_slot |->
     IF previous_assignment # <<>>
     THEN <<to_slot(ix, previous_assignment[1][1])>> ELSE <<>>]

swo_info(req, ix, i) ==
  swo_segment_info(ix, req.tasks[i],
                   duration_to_slots(ix, req.tasks[i].duration_minutes),
                   to_slot_ceiling(ix, req.tasks[i].earliest_start),
                   to_slot_ceiling(ix, req.tasks[i].due),
                   previous_get(req, req.tasks[i].task_id))

\* order.sort(key=lambda t: (-t.priority, t.earliest_start)), on task indices
priority_key_lt(x, y) ==
  \/ x.priority > y.priority
  \/ (x.priority = y.priority /\ x.earliest_start < y.earliest_start)

swo_initial_order(req) ==
  StableSort([i \in 1..Len(req.tasks) |-> i],
             [p \in (1..Len(req.tasks)) \X (1..Len(req.tasks)) |->
                priority_key_lt(req.tasks[p[1]], req.tasks[p[2]])])

\* base_occupancy, as the set of slots marked True
swo_base_occupancy(req, ix) ==
  (IF req.working_day_start_hour > 0 \/ req.working_day_end_hour < HoursPerDay
   THEN {slot \in 0..(ix.horizon_slots - 1) :
           \/ to_datetime(ix, slot) % MinutesPerDay
                < req.working_day_start_hour * MinutesPerHour
           \/ to_datetime(ix, slot) % MinutesPerDay
                >= req.working_day_end_hour * MinutesPerHour}
   ELSE {})
  \cup UNION {Max(0, to_slot(ix, req.meetings[j].start))
                .. (Min(ix.horizon_slots, to_slot_ceiling(ix, req.meetings[j].end)) - 1) :
              j \in 1..Len(req.meetings)}

\* _find_slot: the scan from slot upwards; <<>> for None
RECURSIVE find_slot_from(_, _, _, _)
find_slot_from(info, occupancy, latest_start, slot) ==
  IF slot > latest_start THEN <<>>
  ELSE IF /\ slot + info.duration_slots <= info.due_slot
          /\ \A idx \in slot..(slot + info.duration_slots - 1) : idx \notin occupancy
  THEN <<slot>>
  ELSE find_slot_from(info, occupancy, latest_start, slot + 1)

find_slot_after_earliest(info, occupancy, H) ==
  find_slot_from(info, occupancy,
                 Min(info.latest_start_slot, H - info.duration_slots),
                 info.earliest_slot + 1)

find_slot(info, occupancy, H) ==
  find_slot_from(info, occupancy,
                 Min(info.latest_start_slot, H - info.duration_slots),
                 info.earliest_slot)

\* one pass of the loop of _construct_schedule: task i with the slot found
construct_place_reserving(st, i, info, start_slot) ==
  IF start_slot = <<>>
  THEN [st EXCEPT
          !.occupancy = @ \cup (info.earliest_slot..(info.earliest_slot + info.duration_slots - 1)),
          !.unscheduled = Append(@, i)]
  ELSE [st EXCEPT
          !.occupancy = @ \cup (start_slot[1]..(start_slot[1] + info.duration_slots - 1)),
          !.assignments = Append(@, [task |-> i, start_slot |-> start_slot[1]])]

construct_place(st, i, info, start_slot) ==
  IF start_slot = <<>>
  THEN [st EXCEPT !.unscheduled = Append(@, i)]
  ELSE [st EXCEPT
          !.occupancy = @ \cup (start_slot[1]..(start_slot[1] + info.duration_slots - 1)),
          !.assignments = Append(@, [task |-> i, start_slot |-> start_slot[1]])]

\* _construct_schedule from position k of the order on: the state is the
\* occupancy, the assignments (a dict in insertion order: a sequence of
\* [task, start_slot]) and the unscheduled list
RECURSIVE construct_from(_, _, _, _, _)
construct_from(infos, H, order, k, st) ==
  IF k > Len(order) THEN st
  ELSE construct_from(infos, H, order, k + 1,
         construct_place(st, order[k], infos[order[k]],
                         find_slot(infos[order[k]], st.occupancy, H)))

construct_schedule(infos, H, base_occupancy, order) ==
  construct_from(infos, H, order, 1,
                 [occupancy |-> base_occupancy, assignments |-> <<>>,
                  unscheduled |-> <<>>])

swo_assigned(ix, info, start_slot) ==
  AssignedTask(info.task.task_id,
               to_datetime(ix, start_slot),
               to_datetime(ix, start_slot + info.duration_slots),
               IF info.previous_start_slot # <<>>
               THEN Abs(start_slot - info.previous_start_slot[1]) * ix.granularity
               ELSE 0,
               \* int((end_dt - due).total_seconds() / 60) when end_dt > due
               IF to_datetime(ix, start_slot + info.duration_slots) > info.task.due
               THEN to_datetime(ix, start_slot + info.duration_slots) - info.task.due
               ELSE 0)

\* _build_result
build_result(ix, infos, built) ==
  ScheduleResult(
    sort_by_start([k \in 1..Len(built.assignments) |->
                     swo_assigned(ix, infos[built.assignments[k].task],
                                  built.assignments[k].start_slot)]),
    [k \in 1..Len(built.unscheduled) |-> infos[built.unscheduled[k]].task.task_id],
    <<>>)

\* the penalty of a scheduled task as an exact fraction <<num, den>>
swo_scheduled_penalty(ix, info, start_slot, slack) ==
  <<deviation_weight
      * (IF info.previous_start_slot # <<>>
         THEN Abs(start_slot - info.previous_start_slot[1]) * ix.granularity ELSE 0)
      * (slack + 1)
    + slack_weight,
    slack + 1>>

assigned_slot(built, i) ==
  built.assignments[CHOOSE k \in 1..Len(built.assignments) :
                      built.assignments[k].task = i].start_slot

\* _evaluate_penalties
evaluate_penalties(ix, infos, built) ==
  [i \in 1..Len(infos) |->
     IF i \in Range(built.unscheduled) THEN <<unscheduled_penalty, 1>>
     ELSE swo_scheduled_penalty(ix, infos[i], assigned_slot(built, i),
            Max(0, infos[i].due_slot
                     - (assigned_slot(built, i) + infos[i].duration_slots)))]

\* p < q on fractions with positive denominators
frac_lt(p, q) == p[1] * q[2] < q[1] * p[2]

\* the key (-penalties[t], -t.priority, t.earliest_start) of i before that of j
penalty_key_lt(infos, penalties, i, j) ==
  \/ frac_lt(penalties[j], penalties[i])
  \/ /\ ~frac_lt(penalties[i], penalties[j])
     /\ priority_key_lt(infos[i].task, infos[j].task)

\* sorted(order, key=..., reverse=True)
swo_reorder_reversed(infos, order, penalties) ==
  StableSort(order, [p \in (1..Len(infos)) \X (1..Len(infos)) |->
                       penalty_key_lt(infos, penalties, p[2], p[1])])

\* sorted(order, key=...)
swo_reorder(infos, order, penalties) ==
  StableSort(order, [p \in (1..Len(infos)) \X (1..Len(infos)) |->
                       penalty_key_lt(infos, penalties, p[1], p[2])])

\* the update that also replaces the best result on a tie
swo_new_best_on_tie(best, res, n_unscheduled, objective) ==
  IF \/ best = <<>>
     \/ n_unscheduled <= best[1].unscheduled
  THEN <<[result |-> res, unscheduled |-> n_unscheduled, objective |-> objective]>>
  ELSE best

\* the update of best_result, best_unscheduled and best_objective; best is
\* <<>> while best_result is None
swo_new_best(best, res, n_unscheduled, objective) ==
  IF \/ best = <<>>
     \/ n_unscheduled < best[1].unscheduled
     \/ (n_unscheduled = best[1].unscheduled /\ objective < best[1].objective)
  THEN <<[result |-> res, unscheduled |-> n_unscheduled, objective |-> objective]>>
  ELSE best

\* one pass of the loop body: what the next pass starts from, and whether the
\* loop breaks
swo_after_pass(ix, infos, order, penalties, best, built, new_penalties) ==
  [best |-> swo_new_best(best, build_result(ix, infos, built), Len(built.unscheduled),
                         Len(built.unscheduled) * unscheduled_penalty),
   penalties |-> new_penalties,
   order |-> swo_reorder(infos, order, new_penalties),
   \* abs(p - q) > 1e-6 for some task
   changed |-> \E i \in 1..Len(infos) :
                 Abs(new_penalties[i][1] * penalties[i][2]
                       - penalties[i][1] * new_penalties[i][2])
                   > (new_penalties[i][2] * penalties[i][2]) \div 1000000]

swo_pass(ix, infos, base_occupancy, order, penalties, best, built) ==
  swo_after_pass(ix, infos, order, penalties, best, built,
                 evaluate_penalties(ix, infos, built))

\* the loop `for iteration in range(self.max_iterations)`
RECURSIVE swo_loop(_, _, _, _, _, _, _, _)
swo_continue(req, ix, infos, base_occupancy, iteration, order, nxt) ==
  IF ~nxt.changed \/ nxt.order = order THEN nxt.best
  ELSE swo_loop(req, ix, infos, base_occupancy, iteration + 1, nxt.order,
                nxt.penalties, nxt.best)

swo_loop(req, ix, infos, base_occupancy, iteration, order, penalties, best) ==
  IF iteration >= req.max_iterations THEN best
  ELSE swo_continue(req, ix, infos, base_occupancy, iteration, order,
         swo_pass(ix, infos, base_occupancy, order, penalties, best,
                  construct_schedule(infos, ix.horizon_slots, base_occupancy, order)))

swo_finish(req, best) ==
  IF best = <<>>
  THEN ScheduleResult(<<>>,
         [k \in 1..Len(req.previous_assignments) |-> req.previous_assignments[k].task_id],
         <<>>)
  ELSE [best[1].result EXCEPT !.objective_value = <<best[1].objective>>]

swo_run(req, ix) ==
  swo_finish(req,
    swo_loop(req, ix, [i \in 1..Len(req.tasks) |-> swo_info(req, ix, i)],
             swo_base_occupancy(req, ix), 0, swo_initial_order(req),
             [i \in 1..Len(req.tasks) |-> <<0, 1>>], <<>>))

swo_schedule(req) ==
  IF req.tasks = <<>> THEN ScheduleResult(<<>>, <<>>, <<0>>)
  ELSE swo_run(req, indexer(req, SWOGranularity))

(***************************************************************************)
(* app/services/scheduling.py: segmentation, remap, the service run        *)
(***************************************************************************)
\* segment_chunk without the rebalancing of a remainder below the minimum
segment_chunk_unbalanced(rem) == Max(MIN_BLOCK_MINUTES, Min(MAX_BLOCK_MINUTES, rem))

\* one pass of the while loop of _segment_duration: the chunk that is appended
segment_chunk(rem) ==
  LET chunk0 == Min(MAX_BLOCK_MINUTES, rem)
      remainder == rem - chunk0
      chunk1 == IF 0 < remainder /\ remainder < MIN_BLOCK_MINUTES
                THEN chunk0 - Min(MIN_BLOCK_MINUTES - remainder,
                                  chunk0 - MIN_BLOCK_MINUTES)
                ELSE chunk0
  IN Max(MIN_BLOCK_MINUTES, Min(chunk1, rem))

RECURSIVE segment_loop(_)
segment_loop(rem) ==
  IF rem > 0
  THEN <<segment_chunk(rem)>> \o segment_loop(rem - segment_chunk(rem))
  ELSE <<>>

segment_duration(total) == segment_loop(Max(total, MIN_BLOCK_MINUTES))

\* A task id is the pair <<root, k>>: <<root, 1>> is the plain id str(task.id)
\* and <<root, k>>, k >= 2, is the id f"{task.id}::seg{k}".
plain_id(root) == <<root, 1>>
schedule_id(root, index) == IF index = 0 THEN plain_id(root) ELSE <<root, index + 1>>

\* _remap_schedule_result; mapping is the dict schedule_mapping, a function
remap_id(mapping, id) == IF id \in DOMAIN mapping THEN mapping[id] ELSE id

\* sorted({...}) of ids: ascending by root name, then by segment number
sorted_ids(ids, names) ==
  LET pos(id) == CHOOSE k \in 1..Len(names) : names[k] = id[1]
      lt(x, y) == pos(x) < pos(y) \/ (pos(x) = pos(y) /\ x[2] < y[2])
      RECURSIVE build(_)
      build(rest) ==
        IF rest = {} THEN <<>>
        ELSE LET m == CHOOSE x \in rest : \A y \in rest \ {x} : lt(x, y)
             IN <<m>> \o build(rest \ {m})
  IN build(ids)

remap_schedule_result_prepending(res, mapping, names) ==
  ScheduleResult(
    [k \in 1..Len(res.assignments) |->
       [res.assignments[Len(res.assignments) + 1 - k]
          EXCEPT !.task_id = remap_id(mapping, @)]],
    sorted_ids({remap_id(mapping, res.unscheduled_tasks[k]) :
                  k \in 1..Len(res.unscheduled_tasks)}, names),
    res.objective_value)

remap_schedule_result(res, mapping, names) ==
  ScheduleResult(
    [k \in 1..Len(res.assignments) |->
       [res.assignments[k] EXCEPT !.task_id = remap_id(mapping, @)]],
    sorted_ids({remap_id(mapping, res.unscheduled_tasks[k]) :
                  k \in 1..Len(res.unscheduled_tasks)}, names),
    res.objective_value)

\* get_latest_snapshot without the filter on the module
get_latest_snapshot_any_module(snapshots, module) ==
  IF snapshots = <<>> THEN <<>> ELSE <<snapshots[Len(snapshots)]>>

\* get_latest_snapshot: newest created_at of the module; <<>> for None
get_latest_snapshot(snapshots, module) ==
  LET mine == {k \in 1..Len(snapshots) : snapshots[k].module = module}
  IN IF mine = {} THEN <<>>
     ELSE <<snapshots[CHOOSE k \in mine :
                        \A j \in mine : snapshots[j].created_at <= snapshots[k].created_at]>>

\* assignments_as_mapping(snapshot).get(task_id, []): the (start, end) pairs of
\* the task, sorted by start
previous_segments(snapshot, id) ==
  LET rows == snapshot.assignments
      RECURSIVE pick(_)
      pick(k) ==
        IF k > Len(rows) THEN <<>>
        ELSE (IF rows[k].task_id = id
              THEN << <<rows[k].start, rows[k].end>> >> ELSE <<>>) \o pick(k + 1)
      mine == pick(1)
  IN StableSort(mine, [p \in Range(mine) \X Range(mine) |-> p[1][1] < p[2][1]])

\* a value of a stored window: a string that datetime.fromisoformat parses to
\* the instant t, or any other value
IsoString(t) == [iso |-> TRUE, t |-> t]

\* a stored window, a dict: start and end are <<>> when the key is missing
StoredWindow(start, end) == [start |-> start, end |-> end]

\* _extract_preferred_windows raises for the task: window["start"] raises
\* KeyError, datetime.fromisoformat raises ValueError
extract_raises(task) ==
  \E k \in 1..Len(task.preferred_windows) :
    \/ task.preferred_windows[k].start = <<>>
    \/ ~task.preferred_windows[k].start[1].iso
    \/ task.preferred_windows[k].end = <<>>
    \/ ~task.preferred_windows[k].end[1].iso

\* _extract_preferred_windows when it returns: <<>> for None, else the list
\* of (start, end)
extract_preferred_windows(task) ==
  IF task.preferred_windows = <<>> THEN <<>>
  ELSE << [k \in 1..Len(task.preferred_windows) |->
            <<task.preferred_windows[k].start[1].t, task.preferred_windows[k].end[1].t>>] >>

\* the loop over the tasks of _run_with_scheduler raises
service_raises(database) ==
  \E t \in 1..Len(database.tasks) : extract_raises(database.tasks[t])

\* the loop over tasks and segments of _run_with_scheduler: the expanded
\* tasks, schedule_mapping and segment_previous_assignments
RECURSIVE expand_from(_, _, _)
expand_from(tasks, previous_snapshot, t) ==
  IF t > Len(tasks)
  THEN [expanded_tasks |-> <<>>, previous |-> <<>>]
  ELSE
    LET task == tasks[t]
        segments == segment_duration(task.duration_minutes)
        prev == IF previous_snapshot = <<>> THEN <<>>
                ELSE previous_segments(previous_snapshot[1], plain_id(task.id))
        rest == expand_from(tasks, previous_snapshot, t + 1)
        RECURSIVE threaded(_)
        threaded(index) ==
          IF index >= Len(segments) THEN <<>>
          ELSE (IF index < Len(prev)
                THEN <<[task_id |-> schedule_id(task.id, index),
                        start |-> prev[index + 1][1], end |-> prev[index + 1][2]]>>
                ELSE <<>>) \o threaded(index + 1)
    IN [expanded_tasks |->
          [k \in 1..Len(segments) |->
             [ScheduleTask(schedule_id(task.id, k - 1), segments[k],
                           task.earliest_start, task.due, task.priority, <<>>)
                EXCEPT !.preferred_windows = extract_preferred_windows(task)]]
          \o rest.expanded_tasks,
        previous |-> threaded(0) \o rest.previous]

service_request(database, module, neighborhood_window) ==
  LET ex == expand_from(database.tasks, get_latest_snapshot(database.snapshots, module), 1)
  IN [tasks |-> ex.expanded_tasks,
      meetings |-> [j \in 1..Len(database.meetings) |->
                      ScheduleMeeting(database.meetings[j].id,
                                      database.meetings[j].start_time,
                                      database.meetings[j].end_time)],
      previous_assignments |-> ex.previous,
      neighborhood_window |-> neighborhood_window]

schedule_mapping(req) ==
  [id \in {req.tasks[i].task_id : i \in 1..Len(req.tasks)} |-> plain_id(id[1])]

\* _build_metrics
build_metrics(res) ==
  [scheduled_count |-> Len(res.assignments),
   unscheduled_count |-> Len(res.unscheduled_tasks),
   total_deviation_minutes |->
     SeqSum([k \in 1..Len(res.assignments) |-> res.assignments[k].deviation_minutes]),
   total_tardiness_minutes |->
     SeqSum([k \in 1..Len(res.assignments) |-> res.assignments[k].tardiness_minutes])]

\* create_snapshot: the new PlanSnapshot row with its TaskAssignment rows
create_snapshot(database, module, label, res) ==
  [database EXCEPT !.snapshots =
     Append(@, [module |-> module, label |-> label,
                assignments |-> res.assignments,
                metrics |-> build_metrics(res),
                created_at |-> Len(@) + 1])]

(***************************************************************************)
(* The inputs the model draws from                                         *)
(***************************************************************************)
\* the root ids, in ascending string order
RootNames == <<"a", "b">>

\* the working-hour attributes a scheduler may be constructed with
\* (0 <= start < end <= 24 is checked by both constructors)
WorkingHours == {<<9, 17>>, <<0, 24>>, <<9, 24>>}

SolverStatuses == {"OPTIMAL", "FEASIBLE", "UNKNOWN"}

\* what CPLNSScheduler / SWOScheduler read besides the request: self, and the
\* slack the solver takes with a FEASIBLE solution
call(req, hours, slack) ==
  [tasks |-> req.tasks, meetings |-> req.meetings,
   previous_assignments |-> req.previous_assignments,
   neighborhood_window |-> req.neighborhood_window,
   working_day_start_hour |-> hours[1], working_day_end_hour |-> hours[2],
   max_iterations |-> max_iterations, solver_slack |-> slack]

Request(tasks, meetings, previous, window) ==
  [tasks |-> tasks, meetings |-> meetings, previous_assignments |-> previous,
   neighborhood_window |-> window]

\* a task that may run into the end of the working day, and one around midnight
TaskEvening == ScheduleTask(plain_id("b"), 20, At(16, 0), At(17, 10), 10, <<>>)

PreviousA == <<[task_id |-> plain_id("a"), start |-> At(16, 10), end |-> At(16, 25)]>>

Requests ==
  {Request(<<a>> \o rest, m, <<>>, <<>>) :
     \* earliest start, due and duration on or off the 5 and 15 minute grids
     a \in {ScheduleTask(plain_id("a"), dur, es, due, 5, <<>>) :
              dur \in {7, 15}, es \in {At(16, 0), At(16, 2)},
              due \in {At(16, 30), At(16, 32)}},
     rest \in {<<>>, <<TaskEvening>>},
     m \in {<<>>,
            <<ScheduleMeeting("m1", At(16, 5), At(16, 10))>>,
            <<ScheduleMeeting("m1", At(16, 3), At(16, 11))>>}}
  \cup
  \* with a task around midnight
  {Request(<<a, ScheduleTask(plain_id("b"), 45, At(23, 30), At(24, 30), 10, <<>>)>>,
           <<>>, <<>>, <<>>) :
     a \in {ScheduleTask(plain_id("a"), 15, At(16, 0), At(16, 30), 5, <<>>)}}
  \cup
  {Request(<<a>> \o rest, m, prev, w) :
     a \in {ScheduleTask(plain_id("a"), 15, At(16, 0), At(16, 30), 5, <<>>)},
     rest \in {<<>>, <<ScheduleTask(schedule_id("a", 1), 20, At(16, 0), At(17, 10),
                                   5, <<>>)>>},
     m \in {<<>>, <<ScheduleMeeting("m1", At(16, 5), At(16, 10))>>,
            <<ScheduleMeeting("m1", At(16, 15), At(16, 20))>>},
     \* the second previous start is off the 5 and 15 minute grids
     prev \in {PreviousA,
               <<[task_id |-> plain_id("a"), start |-> At(16, 12),
                  end |-> At(16, 27)]>>},
     w \in {<<>>, << <<At(16, 0), At(16, 5)>> >>}}
  \cup
  {Request(<<a>> \o rest, m, <<>>, <<>>) :
     a \in {ScheduleTask(plain_id("a"), 15, At(16, 0), At(16, 30), 5, <<At(16, 10)>>)},
     rest \in {<<>>, <<TaskEvening>>},
     m \in {<<>>, <<ScheduleMeeting("m1", At(16, 5), At(16, 10))>>}}
  \cup
  {Request(<<>>, m, prev, w) :
     m \in {<<>>, <<ScheduleMeeting("m1", At(16, 5), At(16, 10))>>},
     prev \in {<<>>, PreviousA},
     w \in {<<>>, << <<At(16, 0), At(16, 5)>> >>}}

NoRun == [scheduler |-> "none", status |-> "none",
          working_day_start_hour |-> 0, working_day_end_hour |-> 0]

\* no SWOScheduler.schedule call is under way
NoPass == [hours |-> <<0, 0>>, max_iterations |-> 0, iteration |-> 0,
           order |-> <<>>, position |-> 0]

\* no request handler holds a database session
NoSession == [step |-> "none", module |-> "none", label |-> <<>>,
              neighborhood_window |-> <<>>, snapshot_row |-> <<>>,
              assignment_rows |-> <<>>, rolled_back |-> 0, error |-> "none"]

EmptyDb == [tasks |-> <<>>, meetings |-> <<>>, snapshots |-> <<>>]

(***************************************************************************)
(* Spec: one call of a scheduler on a request, then the remap              *)
(***************************************************************************)
Init ==
  /\ request \in Requests \cup
       \* one task beside two meetings that overlap each other or not, and
       \* beside a meeting in the evening
       {Request(<<ScheduleTask(plain_id("a"), 15, At(16, 0), At(16, 30), 5, <<>>)>>,
                m, <<>>, <<>>) :
          m \in {<<ScheduleMeeting("m1", At(16, 15), At(16, 25)),
                   ScheduleMeeting("m2", s, At(16, 40))>> :
                   s \in {At(16, 20), At(16, 25)}}
                \cup {<<ScheduleMeeting("m1", At(17, 30), At(18, 0))>>}}
  /\ result = NoResult
  /\ phase = "request"
  /\ last_run = NoRun
  /\ total_minutes = 0 /\ remaining = 0 /\ chunks = <<>>
  /\ db = EmptyDb
  /\ swo = NoPass
  /\ session = NoSession
  /\ conc = <<>>

CPSchedule ==
  /\ phase = "request"
  /\ \E hours \in WorkingHours, status \in SolverStatuses :
       /\ result' \in cp_schedule(call(request, hours, AuxSlack), status)
       /\ last_run' = [scheduler |-> "CP_LNS",
                       status |-> cp_status(call(request, hours, AuxSlack), status),
                       working_day_start_hour |-> hours[1],
                       working_day_end_hour |-> hours[2]]
  /\ phase' = "scheduled"
  /\ UNCHANGED <<request, total_minutes, remaining, chunks, db, swo, session, conc>>

SWOSchedule ==
  /\ phase = "request"
  /\ \E hours \in WorkingHours :
       /\ result' = swo_schedule(call(request, hours, AuxSlack))
       /\ last_run' = [scheduler |-> "SWO", status |-> "none",
                       working_day_start_hour |-> hours[1],
                       working_day_end_hour |-> hours[2]]
  /\ phase' = "scheduled"
  /\ UNCHANGED <<request, total_minutes, remaining, chunks, db, swo, session, conc>>

Remap ==
  /\ phase = "scheduled"
  /\ result.status = "returned"
  /\ result' = remap_schedule_result(result, schedule_mapping(request), RootNames)
  /\ phase' = "remapped"
  /\ UNCHANGED <<request, last_run, total_minutes, remaining, chunks, db, swo, session, conc>>

Next == CPSchedule \/ SWOSchedule \/ Remap

Spec == Init /\ [][Next]_vars

(***************************************************************************)
(* SpecSeg: _segment_duration(total), one pass of its while loop per step  *)
(***************************************************************************)
InitSeg ==
  /\ total_minutes \in 1..MaxTotal
  /\ remaining = Max(total_minutes, MIN_BLOCK_MINUTES)
  /\ chunks = <<>>
  /\ phase = "segmenting"
  /\ request = Request(<<>>, <<>>, <<>>, <<>>)
  /\ result = NoResult
  /\ last_run = NoRun
  /\ db = EmptyDb
  /\ swo = NoPass
  /\ session = NoSession
  /\ conc = <<>>

\* while remaining > 0: segments.append(chunk); remaining -= chunk
SegmentStep ==
  /\ phase = "segmenting"
  /\ remaining > 0
  /\ chunks' = Append(chunks, segment_chunk(remaining))
  /\ remaining' = remaining - segment_chunk(remaining)
  /\ UNCHANGED <<request, result, phase, total_minutes, db, last_run, swo, session, conc>>

\* return segments
SegmentReturn ==
  /\ phase = "segmenting"
  /\ remaining <= 0
  /\ phase' = "segmented"
  /\ UNCHANGED <<request, result, total_minutes, remaining, chunks, db, last_run, swo, session, conc>>

NextSeg == SegmentStep \/ SegmentReturn

SpecSeg == InitSeg /\ [][NextSeg]_vars

(***************************************************************************)
(* SpecService: SchedulingService runs against the database                *)
(***************************************************************************)
\* the service of the API holds schedulers constructed with the defaults
DefaultHours == <<9, 17>>

\* a row of tasks; preferred_windows is NULL
TaskRow(id, dur, es, due, pri) ==
  [id |-> id, duration_minutes |-> dur, earliest_start |-> es, due |-> due,
   priority |-> pri, preferred_windows |-> <<>>]

MeetingRow(id, s, e) == [id |-> id, start_time |-> s, end_time |-> e]

Databases ==
  {[tasks |-> t, meetings |-> m, snapshots |-> <<>>] :
     \* task tables, in the order list_tasks returns them (by earliest_start)
     t \in {<<TaskRow("a", dur, At(9, 0), At(9, 40), 5)>> : dur \in {10, 17}}
           \cup {<<TaskRow("a", 130, At(9, 0), due, 5)>> :
                   due \in {At(11, 0), At(11, 10)}}
           \cup {<<TaskRow("a", 30, At(9, 0), At(10, 0), 5),
                   TaskRow("b", 20, At(9, 15), At(10, 0), 8)>>}
           \cup {<<TaskRow("a", 180, At(9, 0), At(12, 0), 5)>>},
     m \in {<<>>, <<MeetingRow("m1", At(9, 0), At(9, 10))>>}}

NeighborhoodWindows == {<<>>, << <<At(9, 0), At(9, 30)>> >>}

InitService ==
  /\ db \in Databases
  /\ swo = NoPass
  /\ session = NoSession
  /\ conc = <<>>
  /\ phase = "service"
  /\ request = Request(<<>>, <<>>, <<>>, <<>>)
  /\ result = NoResult
  /\ last_run = NoRun
  /\ total_minutes = 0 /\ remaining = 0 /\ chunks = <<>>

\* _run_with_scheduler after scheduler.schedule(request) returned res, or
\* raised: the exception leaves the handler before anything is written
run_finish(req, res, module) ==
  /\ request' = req
  /\ IF res.status = "raised"
     THEN result' = Raised /\ db' = db
     ELSE /\ result' = remap_schedule_result(res, schedule_mapping(req), RootNames)
          /\ db' = create_snapshot(db, module, <<>>,
                     remap_schedule_result(res, schedule_mapping(req), RootNames))
  /\ phase' = "served"
  /\ UNCHANGED <<total_minutes, remaining, chunks, swo, session, conc>>

run_cp(req, status) ==
  /\ \E res \in cp_schedule(call(req, DefaultHours, ServiceAuxSlack), status) :
       run_finish(req, res, "CP_LNS")
  /\ last_run' = [scheduler |-> "CP_LNS",
                  status |-> cp_status(call(req, DefaultHours, ServiceAuxSlack), status),
                  working_day_start_hour |-> DefaultHours[1],
                  working_day_end_hour |-> DefaultHours[2]]

\* POST /run: run_cp_schedule
RunCPSchedule ==
  /\ phase \in {"service", "served"}
  /\ Len(db.snapshots) < MaxRuns
  /\ \E window \in NeighborhoodWindows, status \in SolverStatuses :
       run_cp(service_request(db, "CP_LNS", window), status)

run_swo(req) ==
  /\ run_finish(req, swo_schedule(call(req, DefaultHours, ServiceAuxSlack)), "SWO")
  /\ last_run' = [scheduler |-> "SWO", status |-> "none",
                  working_day_start_hour |-> DefaultHours[1],
                  working_day_end_hour |-> DefaultHours[2]]

\* POST /run-swo: run_swo_schedule
RunSWOSchedule ==
  /\ phase \in {"service", "served"}
  /\ Len(db.snapshots) < MaxRuns
  /\ run_swo(service_request(db, "SWO", <<>>))

NextService == RunCPSchedule \/ RunSWOSchedule

SpecService == InitService /\ [][NextService]_vars

(***************************************************************************)
(* SpecSWO: SWOScheduler.schedule on a request with tasks, one task of     *)
(* _construct_schedule per step and one step at the end of each pass       *)
(***************************************************************************)
\* the locals of schedule() that do not change during the loop
pass_request ==
  [call(request, swo.hours, AuxSlack) EXCEPT !.max_iterations = swo.max_iterations]
pass_ix == indexer(pass_request, SWOGranularity)
pass_infos == [i \in 1..Len(request.tasks) |-> swo_info(pass_request, pass_ix, i)]
pass_base_occupancy == swo_base_occupancy(pass_request, pass_ix)

\* schedule() without the sort of the order before the loop
swo_start_request_order(req, hours) ==
  [hours |-> hours,
   max_iterations |-> req.max_iterations,
   iteration |-> 0,
   order |-> [i \in 1..Len(req.tasks) |-> i],
   penalties |-> [i \in 1..Len(req.tasks) |-> <<0, 1>>],
   best |-> <<>>,
   position |-> 0,
   built |-> [occupancy |-> swo_base_occupancy(req, indexer(req, SWOGranularity)),
              assignments |-> <<>>, unscheduled |-> <<>>]]

\* schedule() up to the first pass of the loop
swo_start(req, hours) ==
  [hours |-> hours,
   max_iterations |-> req.max_iterations,
   iteration |-> 0,
   order |-> swo_initial_order(req),
   penalties |-> [i \in 1..Len(req.tasks) |-> <<0, 1>>],
   best |-> <<>>,
   position |-> 0,
   built |-> [occupancy |-> swo_base_occupancy(req, indexer(req, SWOGranularity)),
              assignments |-> <<>>, unscheduled |-> <<>>]]

InitSWO ==
  /\ request \in {r \in Requests : r.tasks # <<>>} \cup
       \* three tasks of which b and c compete for one half hour, b with a
       \* previous start near its window or hours away from it
       {Request(<<ScheduleTask(plain_id("a"), 15, At(16, 30), At(17, 0), 10, <<>>),
                  ScheduleTask(plain_id("b"), 30, At(16, 0), At(16, 30), 8, <<>>),
                  ScheduleTask(plain_id("c"), 15, At(16, 0), At(16, 30), 5, <<>>)>>,
                <<>>,
                <<[task_id |-> plain_id("b"), start |-> prev, end |-> prev + 30]>>,
                <<>>) :
          prev \in {At(16, 15), At(20, 0)}}
  \* a scheduler constructed with max_iterations 0, 1, 2 or the default
  /\ swo \in {swo_start([call(request, hours, AuxSlack) EXCEPT !.max_iterations = mi],
                        hours) :
                hours \in WorkingHours, mi \in {0, 1, 2, max_iterations}}
  /\ phase = "constructing"
  /\ result = NoResult
  /\ last_run = NoRun
  /\ total_minutes = 0 /\ remaining = 0 /\ chunks = <<>>
  /\ db = EmptyDb
  /\ session = NoSession
  /\ conc = <<>>

\* the body of `for task in order` for the task at the next position
ConstructStep ==
  /\ phase = "constructing"
  /\ swo.iteration < swo.max_iterations
  /\ swo.position < Len(swo.order)
  /\ swo' = [swo EXCEPT
               !.position = @ + 1,
               !.built = construct_place(@, swo.order[swo.position + 1],
                           pass_infos[swo.order[swo.position + 1]],
                           find_slot(pass_infos[swo.order[swo.position + 1]],
                                     swo.built.occupancy, pass_ix.horizon_slots))]
  /\ UNCHANGED <<request, result, phase, last_run, total_minutes, remaining, chunks, db, session, conc>>

\* the rest of the loop body of schedule() after _construct_schedule returned
pass_next ==
  swo_pass(pass_ix, pass_infos, pass_base_occupancy, swo.order, swo.penalties,
           swo.best, swo.built)

\* the break, or the end of range(self.max_iterations)
pass_is_last(nxt) ==
  \/ ~nxt.changed
  \/ nxt.order = swo.order
  \/ swo.iteration + 1 >= pass_request.max_iterations

NextPass ==
  /\ phase = "constructing"
  /\ swo.iteration < swo.max_iterations
  /\ swo.position = Len(swo.order)
  /\ ~pass_is_last(pass_next)
  /\ swo' = [swo EXCEPT
               !.iteration = @ + 1,
               !.order = pass_next.order,
               !.penalties = pass_next.penalties,
               !.best = pass_next.best,
               !.position = 0,
               !.built = [occupancy |-> pass_base_occupancy,
                          assignments |-> <<>>, unscheduled |-> <<>>]]
  /\ UNCHANGED <<request, result, phase, last_run, total_minutes, remaining, chunks, db, session, conc>>

\* the loop is left by the break or at the end of the range, which is
\* empty for max_iterations = 0
ReturnBest ==
  /\ phase = "constructing"
  /\ IF swo.iteration >= swo.max_iterations
     THEN result' = swo_finish(pass_request, swo.best)
     ELSE /\ swo.position = Len(swo.order)
          /\ pass_is_last(pass_next)
          /\ result' = swo_finish(pass_request, pass_next.best)
  /\ last_run' = [scheduler |-> "SWO", status |-> "none",
                  working_day_start_hour |-> swo.hours[1],
                  working_day_end_hour |-> swo.hours[2]]
  /\ phase' = "scheduled"
  /\ UNCHANGED <<request, total_minutes, remaining, chunks, db, swo, session, conc>>

NextSWO == ConstructStep \/ NextPass \/ ReturnBest

SpecSWO == InitSWO /\ [][NextSWO]_vars

(***************************************************************************)
(* SpecTx: one request POST /run or POST /run-swo statement by statement,  *)
(* with the session of get_session: db is the committed database, session  *)
(* holds the rows flushed and not yet committed                            *)
(***************************************************************************)

InitTx ==
  \* the first task may have one stored preferred window: well-formed, without
  \* the end key, or with a start that is no ISO datetime
  /\ db \in Databases \cup
       {[tasks |-> <<[TaskRow("a", 30, At(9, 0), At(10, 0), 5)
                       EXCEPT !.preferred_windows = <<w>>],
                     TaskRow("b", 20, At(9, 15), At(10, 0), 8)>>,
         meetings |-> <<>>, snapshots |-> <<>>] :
          w \in {StoredWindow(<<IsoString(At(9, 0))>>, <<IsoString(At(9, 30))>>),
                 StoredWindow(<<IsoString(At(9, 0))>>, <<>>),
                 StoredWindow(<<[iso |-> FALSE, t |-> 0]>>,
                              <<IsoString(At(9, 30))>>)}}
  /\ session = NoSession
  /\ conc = <<>>
  /\ phase = "idle"
  /\ request = Request(<<>>, <<>>, <<>>, <<>>)
  /\ result = NoResult
  /\ last_run = NoRun
  /\ total_minutes = 0 /\ remaining = 0 /\ chunks = <<>>
  /\ swo = NoPass

\* get_session yields a new session to the handler
OpenSession ==
  /\ phase = "idle"
  /\ Len(db.snapshots) < MaxTxRuns
  /\ \E module \in {"CP_LNS", "SWO"}, window \in NeighborhoodWindows :
       /\ module = "SWO" => window = <<>>
       /\ session' = [NoSession EXCEPT !.step = "open", !.module = module,
                                       !.neighborhood_window = window]
  /\ phase' = "running"
  /\ result' = NoResult
  /\ UNCHANGED <<request, last_run, total_minutes, remaining, chunks, db, swo, conc>>

\* list_tasks, list_meetings, get_latest_snapshot and the expansion
ReadRepositories ==
  /\ session.step = "open"
  /\ IF service_raises(db)
     THEN /\ request' = request
          /\ session' = [session EXCEPT !.step = "raised", !.error = "expansion"]
     ELSE /\ request' = service_request(db, session.module, session.neighborhood_window)
          /\ session' = [session EXCEPT !.step = "read"]
  /\ UNCHANGED <<result, phase, last_run, total_minutes, remaining, chunks, db, swo, conc>>

\* scheduler.schedule(request), _remap_schedule_result
tx_scheduled(res) ==
  IF res.status = "raised"
  THEN /\ result' = Raised
       /\ session' = [session EXCEPT !.step = "raised", !.error = "scheduler"]
  ELSE /\ result' = remap_schedule_result(res, schedule_mapping(request), RootNames)
       /\ session' = [session EXCEPT !.step = "scheduled"]

CallScheduler ==
  /\ session.step = "read"
  /\ IF session.module = "CP_LNS"
     THEN \E status \in SolverStatuses :
            \E res \in cp_schedule(call(request, DefaultHours, ServiceAuxSlack), status) :
              tx_scheduled(res)
     ELSE tx_scheduled(swo_schedule(call(request, DefaultHours, ServiceAuxSlack)))
  /\ UNCHANGED <<request, phase, last_run, total_minutes, remaining, chunks, db, swo, conc>>

\* create_snapshot: session.add(snapshot); session.flush()
InsertSnapshot ==
  /\ session.step = "scheduled"
  /\ session' = [session EXCEPT
        !.step = "snapshot",
        !.snapshot_row = <<[module |-> session.module, label |-> session.label,
                            metrics |-> build_metrics(result)]>>]
  /\ UNCHANGED <<request, result, phase, last_run, total_minutes, remaining, chunks, db, swo, conc>>

\* create_snapshot: the INSERT of the next TaskAssignment row
InsertAssignment ==
  /\ session.step = "snapshot"
  /\ Len(session.assignment_rows) < Len(result.assignments)
  /\ session' = [session EXCEPT !.assignment_rows =
                   Append(@, result.assignments[Len(@) + 1])]
  /\ UNCHANGED <<request, result, phase, last_run, total_minutes, remaining, chunks, db, swo, conc>>

\* the rows a commit of the session adds to the database
commit_session(database, sess) ==
  IF sess.snapshot_row = <<>> THEN database
  ELSE [database EXCEPT !.snapshots =
          Append(@, [module |-> sess.snapshot_row[1].module,
                     label |-> sess.snapshot_row[1].label,
                     assignments |-> sess.assignment_rows,
                     metrics |-> sess.snapshot_row[1].metrics,
                     created_at |-> Len(@) + 1])]

\* session.commit() of the handler, after create_snapshot returned
Commit ==
  /\ session.step = "snapshot"
  /\ Len(session.assignment_rows) = Len(result.assignments)
  /\ db' = commit_session(db, session)
  /\ session' = [session EXCEPT !.step = "committed", !.snapshot_row = <<>>,
                                !.assignment_rows = <<>>]
  /\ UNCHANGED <<request, result, phase, last_run, total_minutes, remaining, chunks, swo, conc>>

\* an exception in a repository read, in the scheduler call, in the INSERT
\* of the snapshot row or of an assignment row, or in the commit
StatementFails ==
  /\ session.step \in {"open", "read", "scheduled", "snapshot"}
  /\ session' = [session EXCEPT !.step = "raised", !.error = "statement"]
  /\ UNCHANGED <<request, result, phase, last_run, total_minutes, remaining, chunks, db, swo, conc>>

\* a close that commits what the failed handler had flushed
session_close_committing(database, sess) == commit_session(database, sess)

\* session.close(): what is flushed and not committed is rolled back
session_close(database, sess) == database

\* the finally clause of get_session
CloseSession ==
  /\ session.step \in {"committed", "raised"}
  /\ db' = session_close(db, session)
  /\ session' = [session EXCEPT
        !.step = "closed", !.snapshot_row = <<>>, !.assignment_rows = <<>>,
        !.rolled_back = Len(session.snapshot_row) + Len(session.assignment_rows)]
  /\ phase' = "idle"
  /\ UNCHANGED <<request, result, last_run, total_minutes, remaining, chunks, swo, conc>>

NextTx ==
  \/ OpenSession \/ ReadRepositories \/ CallScheduler \/ InsertSnapshot
  \/ InsertAssignment \/ Commit \/ StatementFails \/ CloseSession

SpecTx == InitTx /\ [][NextTx]_vars

(***************************************************************************)
(* SpecStore: the requests that write the database, one request per step:  *)
(* the two scheduler runs, POST and DELETE of tasks and meetings, and the   *)
(* calendar sync                                                           *)
(***************************************************************************)

\* the ways the CP search ends in the store
StoreStatuses == {"OPTIMAL", "UNKNOWN"}

InitStore ==
  /\ db = [tasks |-> <<TaskRow("a", 30, At(9, 0), At(10, 0), 5),
                       TaskRow("b", 20, At(9, 15), At(10, 0), 8)>>,
           meetings |-> <<>>, snapshots |-> <<>>]
  /\ phase = "store"
  /\ request = Request(<<>>, <<>>, <<>>, <<>>)
  /\ result = NoResult
  /\ last_run = NoRun
  /\ total_minutes = 0 /\ remaining = 0 /\ chunks = <<>>
  /\ swo = NoPass
  /\ session = NoSession
  /\ conc = <<>>

StoreRunCP ==
  /\ phase \in {"store", "served"}
  /\ Len(db.snapshots) < MaxStoreRuns
  /\ \E window \in NeighborhoodWindows, status \in StoreStatuses :
       run_cp(service_request(db, "CP_LNS", window), status)

StoreRunSWO ==
  /\ phase \in {"store", "served"}
  /\ Len(db.snapshots) < MaxStoreRuns
  /\ run_swo(service_request(db, "SWO", <<>>))

\* rows in the order of an ORDER BY on the column
order_meeting_rows(rows) ==
  StableSort(rows, [p \in Range(rows) \X Range(rows) |->
                      p[1].start_time < p[2].start_time])

\* POST /tasks: create_task and commit
CreateTask ==
  /\ phase \in {"store", "served"}
  /\ \E row \in {TaskRow("a", 30, At(9, 0), At(10, 0), 5),
                  TaskRow("b", 20, At(9, 15), At(10, 0), 8)} :
       /\ \A k \in 1..Len(db.tasks) : db.tasks[k].id # row.id
       \* list_tasks returns the rows in the order of earliest_start
       /\ db' = [db EXCEPT
                   !.tasks =
                     StableSort(Append(@, row),
                       [p \in (Range(@) \cup {row}) \X (Range(@) \cup {row}) |->
                          p[1].earliest_start < p[2].earliest_start])]
  /\ UNCHANGED <<request, result, phase, last_run, total_minutes, remaining, chunks, swo, session, conc>>

\* the relationship Task.assignments cascades the delete of a task to its
\* TaskAssignment rows in every snapshot
delete_task(database, id) ==
  LET other(t) == t.id # id
      keep(a) == a.task_id # plain_id(id)
  IN [database EXCEPT
        !.tasks = SelectSeq(@, other),
        !.snapshots = [k \in 1..Len(database.snapshots) |->
                         [database.snapshots[k] EXCEPT
                            !.assignments = SelectSeq(@, keep)]]]

\* DELETE /tasks/{task_id}: delete_task and commit
DeleteTask ==
  /\ phase \in {"store", "served"}
  /\ \E k \in 1..Len(db.tasks) : db' = delete_task(db, db.tasks[k].id)
  /\ UNCHANGED <<request, result, phase, last_run, total_minutes, remaining, chunks, swo, session, conc>>

\* POST /meetings: create_meeting and commit
CreateMeeting ==
  /\ phase \in {"store", "served"}
  /\ \E row \in {MeetingRow("m1", At(9, 0), At(9, 10))} :
       /\ \A k \in 1..Len(db.meetings) : db.meetings[k].id # row.id
       /\ db' = [db EXCEPT !.meetings = order_meeting_rows(Append(@, row))]
  /\ UNCHANGED <<request, result, phase, last_run, total_minutes, remaining, chunks, swo, session, conc>>

\* DELETE /meetings/{meeting_id}: delete_meeting and commit
DeleteMeeting ==
  /\ phase \in {"store", "served"}
  /\ \E k \in 1..Len(db.meetings) :
       LET other(m) == m.id # db.meetings[k].id
       IN db' = [db EXCEPT !.meetings = SelectSeq(@, other)]
  /\ UNCHANGED <<request, result, phase, last_run, total_minutes, remaining, chunks, swo, session, conc>>

\* the loop over the events of sync_google_calendar: a meeting with the
\* event's id is updated, else one is created
RECURSIVE import_events(_, _, _)
import_events(rows, events, k) ==
  IF k > Len(events) THEN rows
  ELSE import_events(
         IF \E j \in 1..Len(rows) : rows[j].id = events[k].id
         THEN [j \in 1..Len(rows) |->
                 IF rows[j].id = events[k].id THEN events[k] ELSE rows[j]]
         ELSE Append(rows, events[k]),
         events, k + 1)

sync_google_calendar(database, events) ==
  [database EXCEPT !.meetings = order_meeting_rows(import_events(@, events, 1))]

\* POST /integrations/google/sync with a connected calendar that has events:
\* the import, then run_cp_schedule(session, label="google-sync")
SyncCalendar ==
  /\ phase \in {"store", "served"}
  /\ Len(db.snapshots) < MaxStoreRuns
  /\ \E events \in {<<MeetingRow("g1", At(9, 15), At(9, 25))>>},
        status \in StoreStatuses :
       /\ \E res \in cp_schedule(
                        call(service_request(sync_google_calendar(db, events), "CP_LNS", <<>>),
                             DefaultHours, ServiceAuxSlack), status) :
            /\ request' = service_request(sync_google_calendar(db, events),
                                           "CP_LNS", <<>>)
            /\ result' = remap_schedule_result(res,
                            schedule_mapping(
                              service_request(sync_google_calendar(db, events),
                                              "CP_LNS", <<>>)),
                            RootNames)
            /\ db' = create_snapshot(sync_google_calendar(db, events), "CP_LNS",
                        <<"google-sync">>,
                        remap_schedule_result(res,
                          schedule_mapping(
                            service_request(sync_google_calendar(db, events),
                                            "CP_LNS", <<>>)),
                          RootNames))
       /\ last_run' = [scheduler |-> "CP_LNS",
                       status |-> cp_status(
                         call(service_request(sync_google_calendar(db, events), "CP_LNS", <<>>),
                              DefaultHours, ServiceAuxSlack), status),
                       working_day_start_hour |-> DefaultHours[1],
                       working_day_end_hour |-> DefaultHours[2]]
  /\ phase' = "served"
  /\ UNCHANGED <<total_minutes, remaining, chunks, swo, session, conc>>

NextStore ==
  \/ StoreRunCP \/ StoreRunSWO \/ CreateTask \/ DeleteTask
  \/ CreateMeeting \/ DeleteMeeting \/ SyncCalendar

SpecStore == InitStore /\ [][NextStore]_vars

(***************************************************************************)
(* SpecConc: two handlers of POST /run and POST /run-swo at the same time, *)
(* each with its own session and transaction.  conc holds the handlers and *)
(* the rows of plan_snapshots and task_assignments, flushed or committed,  *)
(* in the order of their INSERT; db is what a statement of a transaction   *)
(* reads: the tasks, and the committed snapshots.  A run is numbered by    *)
(* the now() of its transaction, which differs between transactions.       *)
(***************************************************************************)
\* all flushed rows, as a statement without transaction isolation reads them
flushed_snapshots(tables) ==
  [k \in 1..Len(tables.plan_snapshots) |->
     LET mine(row) == row.plan_snapshot_id = tables.plan_snapshots[k].id
         rows == SelectSeq(tables.task_assignments, mine)
     IN [module |-> tables.plan_snapshots[k].module,
         label |-> tables.plan_snapshots[k].label,
         assignments |-> [j \in 1..Len(rows) |-> rows[j].assigned],
         metrics |-> tables.plan_snapshots[k].metrics,
         created_at |-> tables.plan_snapshots[k].created_at]]

\* PlanSnapshot rows with their assignments relationship, as a statement of
\* another transaction reads them: the rows of committed transactions
committed_snapshots(tables) ==
  LET visible(row) == row.run \in tables.committed
      snaps == SelectSeq(tables.plan_snapshots, visible)
  IN [k \in 1..Len(snaps) |->
        LET mine(row) == visible(row) /\ row.plan_snapshot_id = snaps[k].id
            rows == SelectSeq(tables.task_assignments, mine)
        IN [module |-> snaps[k].module, label |-> snaps[k].label,
            assignments |-> [j \in 1..Len(rows) |-> rows[j].assigned],
            metrics |-> snaps[k].metrics, created_at |-> snaps[k].created_at]]

InitConc ==
  /\ db = [tasks |-> <<TaskRow("a", 30, At(9, 0), At(10, 0), 5),
                       TaskRow("b", 20, At(9, 15), At(10, 0), 8)>>,
           meetings |-> <<>>, snapshots |-> <<>>]
  /\ conc = [now |-> 0, committed |-> {},
             handlers |-> [i \in 1..2 |->
                             [step |-> "idle", module |-> "none", run |-> 0,
                              previous |-> <<>>,
                              request |-> Request(<<>>, <<>>, <<>>, <<>>),
                              result |-> NoResult]],
             plan_snapshots |-> <<>>, task_assignments |-> <<>>]
  /\ phase = "concurrent"
  /\ request = Request(<<>>, <<>>, <<>>, <<>>)
  /\ result = NoResult
  /\ last_run = NoRun
  /\ total_minutes = 0 /\ remaining = 0 /\ chunks = <<>>
  /\ swo = NoPass
  /\ session = NoSession

\* handler i: the transaction begins with list_tasks; list_meetings,
\* get_latest_snapshot and the expansion into the request
ConcRead(i) ==
  /\ conc.handlers[i].step = "idle"
  /\ conc.now < MaxConcRuns
  /\ \E module \in {"CP_LNS", "SWO"} :
       conc' = [conc EXCEPT
         !.now = @ + 1,
         !.handlers[i] =
           [step |-> "read", module |-> module, run |-> conc.now + 1,
            previous |->
              IF get_latest_snapshot(db.snapshots, module) = <<>> THEN <<>>
              ELSE <<get_latest_snapshot(db.snapshots, module)[1].created_at>>,
            request |-> service_request(db, module, <<>>),
            result |-> NoResult]]
  /\ UNCHANGED <<request, result, phase, last_run, total_minutes, remaining, chunks, db,
                 swo, session>>

\* handler i: scheduler.schedule(request) and _remap_schedule_result
ConcSolve(i) ==
  /\ conc.handlers[i].step = "read"
  /\ \E res \in IF conc.handlers[i].module = "CP_LNS"
                 THEN UNION {cp_schedule(call(conc.handlers[i].request, DefaultHours,
                                              ServiceAuxSlack), status) :
                               status \in StoreStatuses}
                 ELSE {swo_schedule(call(conc.handlers[i].request, DefaultHours,
                                         ServiceAuxSlack))} :
       conc' = [conc EXCEPT
         !.handlers[i].step = "scheduled",
         !.handlers[i].result =
           remap_schedule_result(res, schedule_mapping(conc.handlers[i].request),
                                 RootNames)]
  /\ UNCHANGED <<request, result, phase, last_run, total_minutes, remaining, chunks, db,
                 swo, session>>

\* handler i, create_snapshot: session.add(snapshot); session.flush()
ConcInsertSnapshot(i) ==
  /\ conc.handlers[i].step = "scheduled"
  /\ conc' = [conc EXCEPT
       !.handlers[i].step = "snapshot",
       !.plan_snapshots =
         Append(@, [id |-> conc.handlers[i].run, run |-> conc.handlers[i].run,
                    module |-> conc.handlers[i].module, label |-> <<>>,
                    metrics |-> build_metrics(conc.handlers[i].result),
                    created_at |-> conc.handlers[i].run])]
  /\ UNCHANGED <<request, result, phase, last_run, total_minutes, remaining, chunks, db,
                 swo, session>>

\* handler i, create_snapshot: the next TaskAssignment(plan_snapshot_id=
\* snapshot.id, ...), flushed
ConcInsertAssignment(i) ==
  /\ conc.handlers[i].step = "snapshot"
  /\ LET own(row) == row.run = conc.handlers[i].run
         inserted == Len(SelectSeq(conc.task_assignments, own))
     IN /\ inserted < Len(conc.handlers[i].result.assignments)
        /\ conc' = [conc EXCEPT
             !.task_assignments =
               Append(@, [plan_snapshot_id |-> conc.handlers[i].run,
                          run |-> conc.handlers[i].run,
                          assigned |-> conc.handlers[i].result.assignments[inserted + 1]])]
  /\ UNCHANGED <<request, result, phase, last_run, total_minutes, remaining, chunks, db,
                 swo, session>>

\* handler i: session.commit() after create_snapshot returned, and the
\* session is closed
ConcCommit(i) ==
  /\ conc.handlers[i].step = "snapshot"
  /\ LET own(row) == row.run = conc.handlers[i].run
     IN Len(SelectSeq(conc.task_assignments, own))
          = Len(conc.handlers[i].result.assignments)
  /\ conc' = [conc EXCEPT !.committed = @ \cup {conc.handlers[i].run},
                          !.handlers[i].step = "idle"]
  /\ db' = [db EXCEPT !.snapshots =
             committed_snapshots([conc EXCEPT
                                    !.committed = @ \cup {conc.handlers[i].run}])]
  /\ UNCHANGED <<request, result, phase, last_run, total_minutes, remaining, chunks,
                 swo, session>>

NextConc ==
  \E i \in 1..2 :
    \/ ConcRead(i) \/ ConcSolve(i) \/ ConcInsertSnapshot(i)
    \/ ConcInsertAssignment(i) \/ ConcCommit(i)

SpecConc == InitConc /\ [][NextConc]_vars

(***************************************************************************)
(* Properties of one scheduler call (specification Spec)                   *)
(***************************************************************************)
Assignments == Range(result.assignments)

\* the ScheduleTask an assignment of the scheduler's own result was made for
task_of(a) ==
  request.tasks[CHOOSE i \in 1..Len(request.tasks) : request.tasks[i].task_id = a.task_id]

Scheduled == phase = "scheduled" /\ result.status = "returned"
Returned == phase \in {"scheduled", "remapped"} /\ result.status = "returned"

intersects(s1, e1, s2, e2) == s1 < e2 /\ s2 < e1

\* C1: in the result of CPLNSScheduler.schedule and of SWOScheduler.schedule,
\* before and after _remap_schedule_result, no two assignments at different
\* positions of the list have intersecting half-open intervals [start, end).
C1_NoOverlap ==
  Returned =>
    \A i, j \in 1..Len(result.assignments) :
      i < j => ~intersects(result.assignments[i].start, result.assignments[i].end,
                           result.assignments[j].start, result.assignments[j].end)

\* two assignments packed back to back, remapped to the same root id
C1_Witness ==
  /\ phase = "remapped"
  /\ Len(result.assignments) = 2
  /\ result.assignments[1].end = result.assignments[2].start
  /\ result.assignments[1].task_id = result.assignments[2].task_id

\* C2: no assignment of either scheduler intersects the wall-clock interval
\* [m.start, m.end) of a meeting of the request, also when the meeting's start
\* or end is off the granularity grid.
C2_MeetingsRespected ==
  Returned =>
    \A a \in Assignments : \A j \in 1..Len(request.meetings) :
      ~intersects(a.start, a.end, request.meetings[j].start, request.meetings[j].end)

\* the working interval of the call that produced the result
work_start == last_run.working_day_start_hour * MinutesPerHour
work_end == last_run.working_day_end_hour * MinutesPerHour

C4_DurationExact ==
  Scheduled => \A a \in Assignments : a.end - a.start = task_of(a).duration_minutes

\* C6: every assignment starts at or after earliest_start of its task.
C6_NotBeforeEarliestStart ==
  Scheduled => \A a \in Assignments : a.start >= task_of(a).earliest_start

\* C7: every assignment ends at or before the due instant of its task.
C7_NotAfterDue ==
  Scheduled => \A a \in Assignments : a.end <= task_of(a).due

\* C8: the reported tardiness_minutes of every assignment is
\* max(0, end - due) in minutes, for OPTIMAL and for FEASIBLE results.
C8_TardinessReported ==
  Scheduled =>
    \A a \in Assignments : a.tardiness_minutes = Max(0, a.end - task_of(a).due)

(***************************************************************************)
(* Properties of _segment_duration (specification SpecSeg)                 *)
(***************************************************************************)
\* C10: for every total >= 1, _segment_duration(total) terminates and returns
\* a non-empty list whose chunks are all in [15, 120] and whose sum is
\* max(total, 15), which is total itself when total >= 15.  Termination: the
\* loop never overshoots (remaining >= 0, chunks plus remaining add up to
\* max(total, 15)) and every chunk is at least 15, so there are at most
\* max(total, 15) / 15 passes; the returned list is what the loop leaves.
C10_SegmentDuration ==
  phase \in {"segmenting", "segmented"} =>
    /\ remaining >= 0
    /\ SeqSum(chunks) + remaining = Max(total_minutes, MIN_BLOCK_MINUTES)
    /\ \A k \in 1..Len(chunks) :
         MIN_BLOCK_MINUTES <= chunks[k] /\ chunks[k] <= MAX_BLOCK_MINUTES
    /\ phase = "segmented" =>
         /\ chunks # <<>>
         /\ chunks = segment_duration(total_minutes)
         /\ SeqSum(chunks) = Max(total_minutes, MIN_BLOCK_MINUTES)
         /\ total_minutes >= MIN_BLOCK_MINUTES => SeqSum(chunks) = total_minutes

\* a total just above the maximum block: the remainder would fall below the
\* minimum and the first chunk is shortened to make room for it
C10_Witness ==
  /\ phase = "segmented"
  /\ total_minutes = MAX_BLOCK_MINUTES + 10
  /\ chunks = <<MAX_BLOCK_MINUTES - 5, MIN_BLOCK_MINUTES>>

(***************************************************************************)
(* Properties of a service run (specification SpecService)                 *)
(***************************************************************************)
Served == phase = "served" /\ result.status = "returned"

\* the minutes assigned to a root id in the served result
assigned_minutes(id) ==
  SeqSum([k \in 1..Len(result.assignments) |->
            IF result.assignments[k].task_id = id
            THEN result.assignments[k].end - result.assignments[k].start ELSE 0])

\* C5: after a service run, for every task of duration d >= 15 whose id is
\* not in unscheduled_tasks, the assignments carrying its id add up to
\* exactly d minutes.
C5_RootMinutesExact ==
  Served =>
    \A t \in 1..Len(db.tasks) :
      (/\ db.tasks[t].duration_minutes >= MIN_BLOCK_MINUTES
       /\ plain_id(db.tasks[t].id) \notin Range(result.unscheduled_tasks))
      => assigned_minutes(plain_id(db.tasks[t].id)) = db.tasks[t].duration_minutes

\* C9: in the served result unscheduled_tasks has no duplicate id, and no id
\* of unscheduled_tasks is the task_id of an assignment of the same result.
C9_UnscheduledDisjoint ==
  Served =>
    /\ \A i, j \in 1..Len(result.unscheduled_tasks) :
         i # j => result.unscheduled_tasks[i] # result.unscheduled_tasks[j]
    /\ \A k \in 1..Len(result.assignments) :
         result.assignments[k].task_id \notin Range(result.unscheduled_tasks)

(***************************************************************************)
(* The neighbourhood window of CPLNSScheduler                              *)
(***************************************************************************)
\* the previous start of a task lies outside the request's window (instants)
outside_window(req, id) ==
  /\ req.neighborhood_window # <<>>
  /\ previous_get(req, id) # <<>>
  /\ ~(req.neighborhood_window[1][1] <= previous_get(req, id)[1][1]
       /\ previous_get(req, id)[1][1] <= req.neighborhood_window[1][2])

\* C11: in the result of CPLNSScheduler.schedule for a request with a
\* neighborhood_window, every task whose previous assignment starts outside
\* the window is in the assignments with start equal to its previous start,
\* whatever meetings and other tasks the request has.
C11_FrozenOutsideWindow ==
  (Scheduled /\ last_run.scheduler = "CP_LNS") =>
    \A i \in 1..Len(request.tasks) :
      outside_window(request, request.tasks[i].task_id) =>
        \E a \in Assignments :
          /\ a.task_id = request.tasks[i].task_id
          /\ a.start = previous_get(request, request.tasks[i].task_id)[1][1]

(***************************************************************************)
(* Requests without tasks                                                  *)
(***************************************************************************)
\* C12: for a request without tasks, CPLNSScheduler.schedule and
\* SWOScheduler.schedule return assignments = [], unscheduled_tasks = [] and
\* objective_value = 0, whatever the meetings, the previous assignments and
\* the neighbourhood window are.
C12_EmptyRequest ==
  (phase = "scheduled" /\ request.tasks = <<>>) =>
    /\ result.status = "returned"
    /\ result.assignments = <<>>
    /\ result.unscheduled_tasks = <<>>
    /\ result.objective_value = <<0>>

C12_Witness ==
  /\ phase = "scheduled" /\ request.tasks = <<>>
  /\ last_run.scheduler = "CP_LNS" /\ last_run.working_day_end_hour = HoursPerDay
  /\ last_run.working_day_start_hour > 0
  /\ request.meetings # <<>>
  /\ request.previous_assignments # <<>>
  /\ request.neighborhood_window # <<>>
  /\ result.objective_value = <<0>>

(***************************************************************************)
(* _remap_schedule_result applied to its own result                        *)
(***************************************************************************)
\* C13: with the mapping the service builds (the first segment's id is the
\* root id), remapping a remapped result again gives the same assignments,
\* unscheduled_tasks and objective_value.
C13_RemapIdempotent ==
  phase = "remapped" =>
    /\ remap_schedule_result(result, schedule_mapping(request), RootNames).assignments
         = result.assignments
    /\ remap_schedule_result(result, schedule_mapping(request), RootNames).unscheduled_tasks
         = result.unscheduled_tasks
    /\ remap_schedule_result(result, schedule_mapping(request), RootNames).objective_value
         = result.objective_value

\* a remapped result with two assignments of one root, one of them made for
\* the segment "a::seg2"
C13_Witness ==
  /\ phase = "remapped"
  /\ \E i \in 1..Len(request.tasks) : request.tasks[i].task_id = schedule_id("a", 1)
  /\ Len(result.assignments) = 2
  /\ result.assignments[1].task_id = plain_id("a")
  /\ result.assignments[2].task_id = plain_id("a")

(***************************************************************************)
(* The solver status                                                       *)
(***************************************************************************)
\* C14: for a request with tasks, when the status of the CP solver is neither
\* OPTIMAL nor FEASIBLE, CPLNSScheduler.schedule returns no assignments, the
\* ids of all tasks of the request as unscheduled_tasks and objective_value
\* None; and objective_value is not None only when the status is OPTIMAL.
C14_NoSolution ==
  (Scheduled /\ last_run.scheduler = "CP_LNS" /\ request.tasks # <<>>) =>
    /\ last_run.status \notin {"OPTIMAL", "FEASIBLE"} =>
         /\ result.assignments = <<>>
         /\ result.unscheduled_tasks
              = [i \in 1..Len(request.tasks) |-> request.tasks[i].task_id]
         /\ result.objective_value = <<>>
    /\ result.objective_value # <<>> => last_run.status = "OPTIMAL"

\* the solver proves a two-task model infeasible
C14_Witness ==
  /\ Scheduled /\ last_run.scheduler = "CP_LNS"
  /\ last_run.status = "INFEASIBLE"
  /\ Len(request.tasks) = 2
  /\ Len(result.unscheduled_tasks) = 2
  /\ result.objective_value = <<>>

(***************************************************************************)
(* Properties of a construction pass (specification SpecSWO)               *)
(***************************************************************************)
\* the tasks of the order up to the current position that found a slot
RECURSIVE placed_order(_)
placed_order(k) ==
  IF k = 0 THEN <<>>
  ELSE IF swo.order[k] \in Range(swo.built.unscheduled) THEN placed_order(k - 1)
  ELSE Append(placed_order(k - 1), swo.order[k])

\* the pass so far equals a pass over the order without the failed tasks
C15_AsIfAbsent ==
  phase = "constructing" =>
    /\ swo.built.assignments
         = construct_schedule(pass_infos, pass_ix.horizon_slots, pass_base_occupancy,
                              placed_order(swo.position)).assignments
    /\ swo.built.occupancy
         = construct_schedule(pass_infos, pass_ix.horizon_slots, pass_base_occupancy,
                              placed_order(swo.position)).occupancy

\* a step for a task that finds no slot appends the task to unscheduled and
\* changes neither the occupancy nor the assignments
C15_FailedStep ==
  (/\ phase = "constructing"
   /\ swo.position < Len(swo.order)
   /\ swo'.position = swo.position + 1
   /\ find_slot(pass_infos[swo.order[swo.position + 1]], swo.built.occupancy,
                pass_ix.horizon_slots) = <<>>)
  => /\ swo'.built.unscheduled
          = Append(swo.built.unscheduled, swo.order[swo.position + 1])
     /\ swo'.built.occupancy = swo.built.occupancy
     /\ swo'.built.assignments = swo.built.assignments

\* C15: in a construction pass of SWO a task without a feasible slot is added
\* to unscheduled and leaves the occupancy unchanged, and every later task of
\* the order is placed as if the failed task had not been in the order.
C15_FailedTaskLeavesNoTrace == []C15_AsIfAbsent /\ [][C15_FailedStep]_vars

\* a task failed and a task after it in the order found a slot
C15_Witness ==
  /\ phase = "constructing"
  /\ \E p, q \in 1..swo.position :
       /\ p < q
       /\ swo.order[p] \in Range(swo.built.unscheduled)
       /\ \E k \in 1..Len(swo.built.assignments) :
            swo.built.assignments[k].task = swo.order[q]

(***************************************************************************)
(* Properties of the session of a run (specification SpecTx)               *)
(***************************************************************************)
\* C16: whether a service run completes or fails at a repository read, the
\* scheduler call, the insert of the snapshot row or of an assignment row,
\* the committed database afterwards has either the new snapshot with all of
\* the run's assignments, or neither the snapshot nor any of its assignments.
C16_AllOrNothing ==
  [][\/ db' = db
     \/ /\ result.status = "returned"
        /\ db' = create_snapshot(db, session.module, session.label, result)]_vars

\* a run that failed after the snapshot row and some, not all, assignment
\* rows were inserted, and whose session is closed
C16_Witness ==
  /\ session.step = "closed"
  /\ session.rolled_back >= 2
  /\ session.rolled_back < 1 + Len(result.assignments)
  /\ db.snapshots = <<>>

(***************************************************************************)
(* Properties of the stored snapshots (specification SpecStore)            *)
(***************************************************************************)
\* C17: no operation of the system (scheduler runs, creation or deletion of
\* tasks and meetings, calendar sync) changes the module, the label, the
\* metrics or the set of assignments of a snapshot that exists.
C17_SnapshotsImmutable ==
  [][\A k \in 1..Len(db.snapshots) :
       /\ k <= Len(db'.snapshots)
       /\ db'.snapshots[k].module = db.snapshots[k].module
       /\ db'.snapshots[k].label = db.snapshots[k].label
       /\ db'.snapshots[k].metrics = db.snapshots[k].metrics
       /\ Range(db'.snapshots[k].assignments) = Range(db.snapshots[k].assignments)]_vars

\* the step is a scheduler run: it wrote a snapshot
run_step == Len(db'.snapshots) = Len(db.snapshots) + 1

\* the snapshots of the module written before the step, oldest first
earlier_of(module) ==
  LET mine(snap) == snap.module = module IN SelectSeq(db.snapshots, mine)

\* (task, start, end) of the previous assignments a request carries, and of
\* the assignments of a snapshot
passed_previous(req) ==
  {<<req.previous_assignments[i].task_id[1], req.previous_assignments[i].start,
     req.previous_assignments[i].end>> : i \in 1..Len(req.previous_assignments)}

stored_assignments(snap) ==
  {<<snap.assignments[k].task_id[1], snap.assignments[k].start,
     snap.assignments[k].end>> : k \in 1..Len(snap.assignments)}

previous_is_newest(req, earlier) ==
  IF earlier = <<>> THEN req.previous_assignments = <<>>
  ELSE /\ passed_previous(req) = stored_assignments(earlier[Len(earlier)])
       /\ Len(req.previous_assignments) = Len(earlier[Len(earlier)].assignments)

\* C18: in any sequence of runs, the previous assignments a run passes to its
\* scheduler are those of the snapshot of the same module written last; the
\* snapshots of the other module have no influence, and a run without an
\* earlier snapshot of its module passes none.
C18_PreviousIsNewestOfModule ==
  [][run_step =>
       previous_is_newest(request',
                          earlier_of(db'.snapshots[Len(db'.snapshots)].module))]_vars

\* a run after two snapshots of its own module with different assignments
\* and a newer snapshot of the other module
C18_Witness ==
  /\ Len(db.snapshots) = MaxStoreRuns
  /\ db.snapshots[1].module = db.snapshots[3].module
  /\ db.snapshots[2].module # db.snapshots[3].module
  /\ stored_assignments(db.snapshots[1]) # stored_assignments(db.snapshots[2])
  /\ stored_assignments(db.snapshots[1]) # {}
  /\ stored_assignments(db.snapshots[2]) # {}
  /\ passed_previous(request) = stored_assignments(db.snapshots[1])

(***************************************************************************)
(* Stored preferred windows (specification SpecTx)                         *)
(***************************************************************************)
\* the run of a database with a malformed window does not stop at the
\* expansion of the tasks: every task is in the request, the task with the
\* malformed entry without preferred windows
C19_ExpansionGoesOn ==
  (/\ session.step = "open"
   /\ session'.step # "open"
   /\ session'.error # "statement"
   /\ service_raises(db))
  => /\ session'.step = "read"
     /\ \A t \in 1..Len(db.tasks) :
          \E i \in 1..Len(request'.tasks) :
            /\ request'.tasks[i].task_id = plain_id(db.tasks[t].id)
            /\ extract_raises(db.tasks[t]) => request'.tasks[i].preferred_windows = <<>>

\* C19: when a stored preferred_windows has a malformed entry (a missing
\* start or end key, a value that is no ISO datetime), the service run does
\* not fail: the task is scheduled without preferred windows, the other
\* tasks are processed normally and a snapshot is persisted.
C19_MalformedWindowsNotFatal ==
  /\ [][C19_ExpansionGoesOn]_vars
  /\ []((/\ session.step = "closed"
          /\ service_raises(db)
          /\ session.error \notin {"statement", "scheduler"})
         => db.snapshots # <<>>)

(***************************************************************************)
(* Two runs in a row (specification SpecService)                           *)
(***************************************************************************)
\* the (task, start) pairs of a result
task_starts(res) ==
  {<<res.assignments[k].task_id, res.assignments[k].start>> :
     k \in 1..Len(res.assignments)}

\* the step is the second run of the module of the first, whose snapshot is
\* the only one
second_run_of_module ==
  /\ phase = "served"
  /\ result.status = "returned"
  /\ Len(db.snapshots) = 1
  /\ Len(db'.snapshots) = 2
  /\ db'.snapshots[2].module = db.snapshots[1].module
  /\ result'.status = "returned"

\* C20: of two runs of one module in a row on the same tasks and meetings,
\* the second with the snapshot of the first as previous plan, the second
\* has the same start for every task as the first, or an objective value
\* strictly lower than the first's.
C20_SameStartsOrLowerObjective ==
  [][second_run_of_module =>
       \/ task_starts(result') = task_starts(result)
       \/ /\ result.objective_value # <<>>
          /\ result'.objective_value # <<>>
          /\ result'.objective_value[1] < result.objective_value[1]]_vars

C23_Fits(info, occupancy, H, s) ==
  /\ info.earliest_slot <= s
  /\ s <= info.latest_start_slot
  /\ s + info.duration_slots <= info.due_slot
  /\ s + info.duration_slots <= H
  /\ \A idx \in s..(s + info.duration_slots - 1) : idx \notin occupancy

C23_Smallest(info, occupancy, H) ==
  IF \E s \in info.earliest_slot..H : C23_Fits(info, occupancy, H, s)
  THEN <<CHOOSE s \in info.earliest_slot..H :
           /\ C23_Fits(info, occupancy, H, s)
           /\ \A r \in info.earliest_slot..(s - 1) : ~C23_Fits(info, occupancy, H, r)>>
  ELSE <<>>

\* the indices of the bitmap the scan reads before it returns `found`
C23_Reads(info, H, found) ==
  UNION {slot..(slot + info.duration_slots - 1) :
           slot \in {r \in info.earliest_slot..
                            (IF found = <<>>
                             THEN Min(info.latest_start_slot, H - info.duration_slots)
                             ELSE found[1]) :
                       r + info.duration_slots <= info.due_slot}}

C23_Call(info, occupancy, H) ==
  /\ find_slot(info, occupancy, H) = C23_Smallest(info, occupancy, H)
  /\ C23_Reads(info, H, find_slot(info, occupancy, H)) \subseteq 0..(H - 1)

\* C23: _find_slot returns the smallest slot of the segment's window at which
\* the segment ends by its due slot and by the horizon and covers only free
\* slots of the bitmap, returns None exactly when there is no such slot, and
\* reads the bitmap only at indices of [0, horizon_slots).
C23_FindSlotSmallestFree ==
  (/\ phase = "constructing"
   /\ swo.iteration < swo.max_iterations
   /\ swo.position < Len(swo.order)) =>
    C23_Call(pass_infos[swo.order[swo.position + 1]], swo.built.occupancy,
             pass_ix.horizon_slots)

\* a call, after an earlier task of the pass was placed, that passes over
\* occupied slots before it finds a free one
C23_Witness ==
  /\ phase = "constructing"
  /\ swo.iteration < swo.max_iterations
  /\ swo.position < Len(swo.order)
  /\ swo.built.assignments # <<>>
  /\ find_slot(pass_infos[swo.order[swo.position + 1]], swo.built.occupancy,
               pass_ix.horizon_slots) # <<>>
  /\ find_slot(pass_infos[swo.order[swo.position + 1]], swo.built.occupancy,
               pass_ix.horizon_slots)[1]
       > pass_infos[swo.order[swo.position + 1]].earliest_slot
  /\ C23_Call(pass_infos[swo.order[swo.position + 1]], swo.built.occupancy,
              pass_ix.horizon_slots)

\* the results of the construction passes schedule() performs from pass
\* `iteration` on, in the order of the passes
RECURSIVE C24_Passes(_, _, _)
C24_Rest(iteration, order, nxt) ==
  IF ~nxt.changed \/ nxt.order = order THEN <<>>
  ELSE C24_Passes(iteration + 1, nxt.order, nxt.penalties)

C24_From(iteration, order, penalties, built) ==
  <<build_result(pass_ix, pass_infos, built)>>
    \o C24_Rest(iteration, order,
                swo_pass(pass_ix, pass_infos, pass_base_occupancy, order, penalties,
                         <<>>, built))

C24_Passes(iteration, order, penalties) ==
  IF iteration >= pass_request.max_iterations THEN <<>>
  ELSE C24_From(iteration, order, penalties,
                construct_schedule(pass_infos, pass_ix.horizon_slots,
                                   pass_base_occupancy, order))

C24_AllPasses ==
  C24_Passes(0, swo_initial_order(pass_request),
             [i \in 1..Len(request.tasks) |-> <<0, 1>>])

\* res is pass k of passes with the objective set, k the first pass of the
\* minimum unscheduled count
C24_FirstMinimum(passes, res, k) ==
  /\ \A j \in 1..Len(passes) :
       Len(passes[j].unscheduled_tasks) >= Len(passes[k].unscheduled_tasks)
  /\ \A j \in 1..(k - 1) :
       Len(passes[j].unscheduled_tasks) > Len(passes[k].unscheduled_tasks)
  /\ res = [passes[k] EXCEPT
              !.objective_value =
                <<Len(passes[k].unscheduled_tasks) * unscheduled_penalty>>]

C24_Returned(passes, res) ==
  \E k \in 1..Len(passes) : C24_FirstMinimum(passes, res, k)

\* C24: for max_iterations >= 1 and a non-empty request, schedule() returns
\* the result of the first construction pass whose unscheduled count is the
\* minimum over all passes performed, with objective_value equal to that
\* count times unscheduled_penalty.
C24_FirstBestPass ==
  (phase = "scheduled" /\ swo.max_iterations >= 1) =>
    C24_Returned(C24_AllPasses, result)

\* a run of two or more passes in which a later pass ties with the returned one
C24_Witness ==
  /\ phase = "scheduled"
  /\ swo.max_iterations >= 2
  /\ Len(C24_AllPasses) >= 2
  /\ C24_FirstMinimum(C24_AllPasses, result, 1)
  /\ \E j \in 2..Len(C24_AllPasses) :
       /\ Len(C24_AllPasses[j].unscheduled_tasks) = Len(result.unscheduled_tasks)
       /\ C24_AllPasses[j].assignments # result.assignments

C25_Index(order, i) == CHOOSE k \in 1..Len(order) : order[k] = i

\* the step from a finished pass to the next pass of the loop
C25_NextPassStep ==
  /\ phase = "constructing"
  /\ swo.position = Len(swo.order)
  /\ swo'.iteration = swo.iteration + 1

\* the claim as stated: whatever the penalty of the scheduled task, every
\* task unscheduled in the pass precedes it in the next order
C25_UnscheduledFirstStep ==
  C25_NextPassStep =>
    \A u \in Range(swo.built.unscheduled) :
      \A k \in 1..Len(swo.built.assignments) :
        C25_Index(swo'.order, u) < C25_Index(swo'.order, swo.built.assignments[k].task)

C25_UnscheduledFirst == [][C25_UnscheduledFirstStep]_vars

C25_BelowPenaltyStep ==
  C25_NextPassStep =>
    \A u \in Range(swo.built.unscheduled) :
      \A k \in 1..Len(swo.built.assignments) :
        frac_lt(evaluate_penalties(pass_ix, pass_infos, swo.built)
                  [swo.built.assignments[k].task],
                <<unscheduled_penalty, 1>>)
        => C25_Index(swo'.order, u)
             < C25_Index(swo'.order, swo.built.assignments[k].task)

\* C25: in the SWO loop a task unscheduled in pass k precedes, in the order
\* of pass k+1, every task scheduled in pass k whose penalty
\* deviation_weight * dev_min + slack_weight / (slack + 1) is smaller than
\* unscheduled_penalty.
C25_UnscheduledBeforeSmallerPenalty == [][C25_BelowPenaltyStep]_vars

\* a second pass begun after a pass that left one task unscheduled and
\* scheduled a task of higher priority with a penalty below
\* unscheduled_penalty, which now follows the unscheduled task
C25_Witness ==
  /\ phase = "constructing"
  /\ swo.iteration = 1
  /\ swo.position = 0
  /\ \E u, s \in 1..Len(request.tasks) :
       /\ request.tasks[s].priority > request.tasks[u].priority
       /\ swo.penalties[u] = <<unscheduled_penalty, 1>>
       /\ frac_lt(swo.penalties[s], <<unscheduled_penalty, 1>>)
       /\ frac_lt(<<0, 1>>, swo.penalties[s])
       /\ C25_Index(swo.order, u) < C25_Index(swo.order, s)

(***************************************************************************)
(* Properties of one scheduler call, continued (specification Spec)        *)
(***************************************************************************)
C26_Distance(a, prev) ==
  a.deviation_minutes = IF prev = <<>> THEN 0 ELSE Abs(a.start - prev[1][1])

\* C26: every assignment a scheduler returns has deviation_minutes equal to
\* the distance in minutes between its start and the start of the previous
\* assignment of its task id in the request, and 0 when the request holds no
\* previous assignment for the task id.
C26_DeviationIsDistance ==
  (phase = "scheduled" /\ result.status = "returned") =>
    \A k \in 1..Len(result.assignments) :
      C26_Distance(result.assignments[k],
                   previous_get(request, result.assignments[k].task_id))

\* C28: in every result of CPLNSScheduler.schedule with at least one
\* assignment, every task in unscheduled_tasks has a previous assignment in
\* the request; for a request without previous assignments either every
\* task is assigned or none is.
C28_UnscheduledHadPrevious ==
  (/\ phase = "scheduled"
   /\ last_run.scheduler = "CP_LNS"
   /\ result.status = "returned") =>
    /\ result.assignments # <<>> =>
         \A k \in 1..Len(result.unscheduled_tasks) :
           previous_get(request, result.unscheduled_tasks[k]) # <<>>
    /\ request.previous_assignments = <<>> =>
         \/ Len(result.assignments) = Len(request.tasks)
         \/ /\ result.assignments = <<>>
            /\ Len(result.unscheduled_tasks) = Len(request.tasks)

\* a CP result with an assignment and a task left unscheduled
C28_Witness ==
  /\ phase = "scheduled"
  /\ last_run.scheduler = "CP_LNS"
  /\ result.assignments # <<>>
  /\ result.unscheduled_tasks # <<>>
  /\ \A k \in 1..Len(result.unscheduled_tasks) :
       previous_get(request, result.unscheduled_tasks[k]) # <<>>

\* every task of the request has a place on the grid of the CP scheduler,
\* inside its window and the working hours, that touches no meeting and no
\* other task
C29_Placeable(vs, fx) ==
  \E c \in cp_cores_upto(vs, fx, Len(vs)) : \A i \in 1..Len(vs) : c[i].present

C29_RequestPlaceable(req, ix) ==
  C29_Placeable([i \in 1..Len(req.tasks) |-> cp_task(req, ix, i)],
                cp_fixed_intervals(req, ix))

\* the call of the CP scheduler returned after a search that ran to its end
C29_Solved ==
  /\ phase = "scheduled"
  /\ last_run.scheduler = "CP_LNS"
  /\ result.status = "returned"
  /\ last_run.status \in {"OPTIMAL", "INFEASIBLE"}
  /\ request.tasks # <<>>

C29_Call ==
  call(request, <<last_run.working_day_start_hour, last_run.working_day_end_hour>>,
       AuxSlack)

\* C29: if every task of a CP request can be placed inside working hours and
\* its window without touching a meeting, CPLNSScheduler.schedule assigns
\* every task, also when two meetings overlap each other or a meeting lies
\* outside working hours.
C29_AllAssignedWhenPlaceable ==
  (C29_Solved /\ C29_RequestPlaceable(C29_Call, indexer(C29_Call, CPGranularity))) =>
    /\ result.unscheduled_tasks = <<>>
    /\ Len(result.assignments) = Len(request.tasks)

(***************************************************************************)
(* Two runs in a row, continued (specification SpecService)                *)
(***************************************************************************)
\* the length of the interval a scheduler of the module gives a segment
C27_IntervalLength(module, duration_minutes) ==
  IF module = "SWO"
  THEN ((duration_minutes + SWOGranularity - 1) \div SWOGranularity) * SWOGranularity
  ELSE ((duration_minutes + CPGranularity - 1) \div CPGranularity) * CPGranularity

\* task i of the request is a segment of a task split into segments whose
\* intervals all differ in length
C27_SplitUnequally(req, module, i) ==
  /\ \E j \in 1..Len(req.tasks) :
       j # i /\ req.tasks[j].task_id[1] = req.tasks[i].task_id[1]
  /\ \A j, k \in 1..Len(req.tasks) :
       (j # k /\ req.tasks[j].task_id[1] = req.tasks[i].task_id[1]
             /\ req.tasks[k].task_id[1] = req.tasks[i].task_id[1])
       => C27_IntervalLength(module, req.tasks[j].duration_minutes)
            # C27_IntervalLength(module, req.tasks[k].duration_minutes)

\* the interval threaded to the segment has the length of the segment's own
\* interval, which no other segment of the task has
C27_OwnInterval(module, task, prev) ==
  prev # <<>> =>
    prev[1][2] - prev[1][1] = C27_IntervalLength(module, task.duration_minutes)

C27_ThreadedStep ==
  second_run_of_module =>
    \A i \in 1..Len(request'.tasks) :
      C27_SplitUnequally(request', db.snapshots[1].module, i) =>
        C27_OwnInterval(db.snapshots[1].module, request'.tasks[i],
                        previous_get(request', request'.tasks[i].task_id))

\* C27: in a run that follows a run of the same module on unchanged tasks,
\* the previous assignment threaded to segment k of a task split into
\* segments of different durations is the interval segment k itself
\* received in the previous run.
C27_SegmentIdentityKept == [][C27_ThreadedStep]_vars

(***************************************************************************)
(* The result as a partition of the task ids (specification SpecSWO)       *)
(***************************************************************************)
C30_Occurrences(res, id) ==
  Cardinality({k \in 1..Len(res.assignments) : res.assignments[k].task_id = id})
  + Cardinality({k \in 1..Len(res.unscheduled_tasks) : res.unscheduled_tasks[k] = id})

C30_Ids(req) == {req.tasks[i].task_id : i \in 1..Len(req.tasks)}

C30_Partitions(req, res) ==
  /\ \A id \in C30_Ids(req) : C30_Occurrences(res, id) = 1
  /\ \A k \in 1..Len(res.assignments) : res.assignments[k].task_id \in C30_Ids(req)
  /\ \A k \in 1..Len(res.unscheduled_tasks) : res.unscheduled_tasks[k] \in C30_Ids(req)

\* C30: for every non-empty request with distinct task ids and every
\* configuration of the scheduler, max_iterations = 0 included, the result
\* partitions the task ids of the request: each is the task_id of exactly
\* one assignment or occurs exactly once in unscheduled_tasks, and no other
\* id occurs.
C30_ResultPartitionsTaskIds ==
  (/\ phase = "scheduled"
   /\ result.status = "returned"
   /\ request.tasks # <<>>
   /\ Cardinality(C30_Ids(request)) = Len(request.tasks))
  => C30_Partitions(request, result)

(***************************************************************************)
(* Properties of two concurrent handlers (specification SpecConc)          *)
(***************************************************************************)
\* every flushed assignment row hangs on the snapshot row of its own run
C22_OwnRows ==
  \A j \in 1..Len(conc.task_assignments) :
    \E k \in 1..Len(conc.plan_snapshots) :
      /\ conc.plan_snapshots[k].id = conc.task_assignments[j].plan_snapshot_id
      /\ conc.plan_snapshots[k].run = conc.task_assignments[j].run

\* a commit adds one snapshot to what other transactions read: the
\* handler's own, with exactly the assignments of its result; no other step
\* changes what they read
C22_CommitStep ==
  /\ \A i \in 1..2 :
       (conc.handlers[i].step = "snapshot" /\ conc'.handlers[i].step = "idle") =>
         \E k \in 1..Len(db'.snapshots) :
           /\ db'.snapshots[k] =
                [module |-> conc.handlers[i].module, label |-> <<>>,
                 assignments |-> conc.handlers[i].result.assignments,
                 metrics |-> build_metrics(conc.handlers[i].result),
                 created_at |-> conc.handlers[i].run]
           /\ db.snapshots = [j \in 1..(Len(db'.snapshots) - 1) |->
                                db'.snapshots[IF j < k THEN j ELSE j + 1]]
  /\ (\A i \in 1..2 : conc'.handlers[i].step = "idle" => conc.handlers[i].step = "idle")
       => db' = db

\* the snapshot a run reads as the previous one is, among the committed
\* snapshots of its module, the one with the latest created_at
C22_ReadStep ==
  \A i \in 1..2 :
    (conc.handlers[i].step = "idle" /\ conc'.handlers[i].step = "read") =>
      LET mine == {k \in 1..Len(db.snapshots) :
                     db.snapshots[k].module = conc'.handlers[i].module}
      IN IF mine = {} THEN conc'.handlers[i].previous = <<>>
         ELSE /\ conc'.handlers[i].previous # <<>>
              /\ \E k \in mine :
                   db.snapshots[k].created_at = conc'.handlers[i].previous[1]
              /\ \A k \in mine :
                   db.snapshots[k].created_at <= conc'.handlers[i].previous[1]

\* C22: two invocations of the same module interleaved at read, solve and
\* persist each persist exactly one complete snapshot, with no assignment
\* row on the other's snapshot, and a run consults the committed snapshot
\* of its module with the latest creation timestamp
C22_ConcurrentRuns ==
  /\ []C22_OwnRows
  /\ [][C22_CommitStep]_vars
  /\ [][C22_ReadStep]_vars

\* two runs of the same module that both read the same previous snapshot
\* and inserted their assignment rows in turn have both committed
C22_Witness ==
  /\ conc.handlers[1].step = "idle" /\ conc.handlers[2].step = "idle"
  /\ {conc.handlers[1].run, conc.handlers[2].run} \subseteq conc.committed
  /\ conc.handlers[1].module = conc.handlers[2].module
  /\ conc.handlers[1].previous # <<>>
  /\ conc.handlers[1].previous = conc.handlers[2].previous
  /\ \E j, k, l \in 1..Len(conc.task_assignments) :
       /\ j < k /\ k < l
       /\ conc.task_assignments[j].run = conc.handlers[1].run
       /\ conc.task_assignments[k].run = conc.handlers[2].run
       /\ conc.task_assignments[l].run = conc.handlers[1].run
  /\ Len(db.snapshots) = 3

====
